---- MODULE Spec2Model ----
(***************************************************************************)
(* The proof-of-work search and submission orchestrator of daved.          *)
(*                                                                         *)
(* The source tree holds several revisions of the same command: the        *)
(* variable rev names the revision a run executes.                         *)
(*   queued set      src/main.go:177, part_001:183, part_003:533           *)
(*   raced set       part_002:421, part_003:138, part_003:348              *)
(*   keyed put/set   part_000:207, part_004:196, part_003:773              *)
(*   batch-writer put part_002:208                                         *)
(* The engine (godave: Work, Set, Put, WaitForActivePeers, BatchWriter)    *)
(* is an external collaborator and is modelled by its contract.            *)
(***************************************************************************)
EXTENDS Integers, Sequences, FiniteSets, TLC

\* ---------------------------------------------------------------- bounds
MaxCPU == 4
MaxBatchCPU == 2
MaxNtest == 3
MaxKeyedNtest == 11
MaxBatchNtest == 2
MaxDifficulty == 2
HashBits == 2
MaxClock == 3
MaxPeers == 2
MaxB64Len == 2
MaxEdges == 1

\* ------------------------------------------------------ program constants
\* time.Now().Add(-100 * time.Millisecond); the clock counts units of 100 ms
Margin == 1
\* chalch := make(chan chal, 1)
ChalCap == 1
\* solch := make(chan sol, 1)
SolCap == 1
\* if len(sig) != 64: the model's signatures are one byte wide
SigSize == 1
\* http.StatusOK, http.StatusBadRequest, http.StatusInternalServerError
StatusOK == 200
StatusBadRequest == 400
StatusInternalServerError == 500

\* -------------------------------------------------------------- revisions
QueuedRevs == {"main_set", "p001_set", "p003_set533"}
RacedRevs == {"p002_set", "p003_set138", "p003_set348"}
KeyedRevs == {"p000_put", "p004_put", "p003_set773"}
BatchRevs == {"p002_put"}
\* the HTTP service: src/api/http.go and part_006
HttpRevs == {"http_svc", "p006_svc"}
Revs == QueuedRevs \cup RacedRevs \cup KeyedRevs \cup BatchRevs \cup HttpRevs
\* the revisions whose func main is part of the run: main.go:27,
\* part_000:35, part_003:610
MainRevs == {"main_set", "p000_put", "p003_set773"}

\* the command that runs the orchestrator
CoreCmd(r) ==
    CASE r \in {"p000_put", "p002_put", "p004_put"} -> "put"
      [] r \in HttpRevs -> "serve"
      [] OTHER -> "set"

\* switch flag.Arg(0)
Cmds(r) ==
    CASE r = "main_set" -> {"version", "set", "setf", "get"}
      [] r = "p000_put" -> {"version", "keygen", "put", "get"}
      [] r = "p003_set773" -> {"version", "keygen", "set", "setf", "get"}
      [] OTHER -> {CoreCmd(r)}

\* what can go wrong in a run, one fault per run:
\*   cfg      address / config parsing or (main.go, part_003) NewDave fails
\*   node     initNode fails            keyfile  the key file is unreadable
\*   args     an argument is missing    infile   setf's input file is unreadable
\*   hex      get's <WORK> is not hex   notfound the dat is not found
\*   keygen   GenerateKey fails         keywrite the key file cannot be written
\*   gate     WaitForActivePeers returns an error
\*   stall    the engine's batch writer stops receiving from datCh
Faults(r, c) ==
    CASE r = "main_set" ->
            {"none", "cfg"} \cup
            (CASE c = "set" -> {"args"}
               [] c = "setf" -> {"args", "infile"}
               [] c = "get" -> {"args", "hex", "notfound"}
               [] OTHER -> {})
      [] r = "p000_put" ->
            {"none", "cfg"} \cup
            (CASE c = "keygen" -> {"keygen", "keywrite"}
               [] c = "put" -> {"node", "keyfile", "args", "gate"}
               [] c = "get" -> {"args", "node", "keyfile", "notfound"}
               [] OTHER -> {})
      [] r = "p003_set773" ->
            {"none", "cfg", "keyfile"} \cup
            (CASE c = "keygen" -> {"args", "keygen", "keywrite"}
               [] c = "set" -> {"args"}
               [] c = "setf" -> {"args", "infile"}
               [] c = "get" -> {"args", "notfound"}
               [] OTHER -> {})
      [] r = "p002_put" -> {"none", "gate", "stall"}
      [] OTHER -> {"none"}

\* uint8(*difficulty): the conversion keeps the low bits; the model's uint8
\* holds 0..MaxDifficulty
Uint8(x) == x % (MaxDifficulty + 1)
\* difficulty := flag.Uint("d", ...): the flag is wider than the uint8
\* handed to set / put
MaxFlagUint == MaxDifficulty + 1

Workers == 1..MaxCPU
Salts == 0..(2^HashBits - 1)
Vals == {1}
PrivKeys == {1, 2}
Keys == {<<"k">>, <<"k", "_", "1">>}

\* ---------------------------------------------------------------- values
NoNum == -1
NoSig == [signer |-> 0, msg |-> NoNum]
NoKey == 0
\* var privKey ed25519.PrivateKey, never assigned
NoPriv == 0
NoSol == [work |-> NoNum, salt |-> NoNum, id |-> NoNum]
NoDat == [Key |-> <<>>, Val |-> NoNum, Time |-> NoNum, Work |-> NoNum,
          Salt |-> NoNum, Sig |-> NoSig, PubKey |-> NoKey, id |-> NoNum]

\* a request with every field at its zero value
NoReq == [method |-> "POST", json |-> FALSE, key |-> <<>>, val |-> 0, time |-> 0,
          difficulty |-> 0, signature |-> <<>>, salt |-> <<>>, work |-> <<>>,
          pubKey |-> <<>>, sig |-> <<>>]
\* no request handled yet
NoHttp == [handler |-> "none", req |-> NoReq, status |-> 0, doWork |-> 0, put |-> 0,
           putErr |-> FALSE, work |-> NoNum, salt |-> NoNum]

Max(a, b) == IF a >= b THEN a ELSE b

\* fmt.Sprintf("%d", n) for n >= 0
RECURSIVE Itoa(_)
Itoa(n) ==
    LET digit == <<"0", "1", "2", "3", "4", "5", "6", "7", "8", "9">>[(n % 10) + 1]
    IN IF n < 10 THEN <<digit>> ELSE Itoa(n \div 10) \o <<digit>>

\* keyInc = fmt.Sprintf("%s_%d", key, i), taken from the base key
KeyIncBroken(base, prev, n) == IF n > 0 THEN prev \o <<"_">> \o Itoa(n) ELSE prev
KeyInc(base, prev, n) == IF n > 0 THEN base \o <<"_">> \o Itoa(n) ELSE prev

CharCode(c) ==
    CASE c = "k" -> 1
      [] c = "_" -> 2
      [] OTHER -> 3

RECURSIVE KeyCode(_)
KeyCode(k) == IF k = <<>> THEN 0 ELSE CharCode(Head(k)) + 2 * KeyCode(Tail(k))

\* ------------------------------------------------- the engine's primitives
\* digest of (input, timestamp, salt)
Digest(input, t, salt) == (input + t + salt) % (2^HashBits)

RECURSIVE LeadingZeros(_, _)
LeadingZeros(w, bits) ==
    IF bits = 0 THEN 0
    ELSE IF w >= 2^(bits - 1) THEN 0
    ELSE 1 + LeadingZeros(w, bits - 1)

\* the difficulty predicate
Satisfies(work, d) == LeadingZeros(work, HashBits) >= d

\* godave.Work / pow.DoWork: some salt whose digest satisfies the predicate
WorkResults(input, t, d) ==
    {[work |-> Digest(input, t, s), salt |-> s] : s \in {x \in Salts : Satisfies(Digest(input, t, x), d)}}

\* ed25519
Sign(priv, msg) == [signer |-> priv, msg |-> msg]
Public(priv) == priv + 10
Verify(pub, msg, sig) == sig.msg = msg /\ Public(sig.signer) = pub

SigCode(sig) == sig.signer + sig.msg
\* what dat.Sign signs: the record's content
Content(d) == KeyCode(d.Key) + d.Val + d.Time

\* ---------------------------------------------------- node configuration
\* type NodeCfgUnparsed struct: the scalar fields, and Edges
ScalarFields == {"KeyFilename", "UdpListenAddr", "BackupFilename", "ShardCapacity", "TTL",
                 "LogLevel", "LogUnbuffered"}
IntFields == {"ShardCapacity", "TTL"}

\* the zero value of a field
Zero(f) == IF f \in IntFields THEN 0 ELSE ""

\* &NodeCfgUnparsed{}
EmptyCfg ==
    [KeyFilename |-> "", UdpListenAddr |-> "", Edges |-> <<>>, BackupFilename |-> "",
     ShardCapacity |-> 0, TTL |-> 0, LogLevel |-> "", LogUnbuffered |-> ""]

\* var defaultCfgUnparsed: ShardCapacity is 1024 * 1024 * 1024, TTL is
\* 365 * 24 hours (counted in hours)
defaultCfgUnparsed ==
    [EmptyCfg EXCEPT !.KeyFilename = "key.dave", !.UdpListenAddr = "[::]:127",
                     !.ShardCapacity = 1024 * 1024 * 1024, !.TTL = 365 * 24,
                     !.LogLevel = "ERROR"]

\* what a config file sets a field to, and what a flag sets it to
FileValue ==
    [KeyFilename |-> "file.key", UdpListenAddr |-> "[::]:1", BackupFilename |-> "file.bak",
     ShardCapacity |-> 1, TTL |-> 1, LogLevel |-> "debug", LogUnbuffered |-> "yes"]
FlagValue ==
    [KeyFilename |-> "flag.key", UdpListenAddr |-> "[::]:2", BackupFilename |-> "flag.bak",
     ShardCapacity |-> 2, TTL |-> 0, LogLevel |-> "ERROR", LogUnbuffered |-> "1"]

\* the fields a source sets: none, one of them, or all
FieldChoices == {{}} \cup {{f} : f \in ScalarFields} \cup {ScalarFields}

\* an edge string: empty, an address that resolves, one that does not
EdgeStrings == {"", "e", "bad"}
EdgeLists(min) == UNION {[1..n -> EdgeStrings] : n \in min..MaxEdges}

\* the struct a source yields when it sets the fields of set to value
CfgOf(value, set, edges) ==
    [KeyFilename |-> IF "KeyFilename" \in set THEN value.KeyFilename ELSE "",
     UdpListenAddr |-> IF "UdpListenAddr" \in set THEN value.UdpListenAddr ELSE "",
     Edges |-> edges,
     BackupFilename |-> IF "BackupFilename" \in set THEN value.BackupFilename ELSE "",
     ShardCapacity |-> IF "ShardCapacity" \in set THEN value.ShardCapacity ELSE 0,
     TTL |-> IF "TTL" \in set THEN value.TTL ELSE 0,
     LogLevel |-> IF "LogLevel" \in set THEN value.LogLevel ELSE "",
     LogUnbuffered |-> IF "LogUnbuffered" \in set THEN value.LogUnbuffered ELSE ""]

\* no NodeCfg parsed yet
NoNodeCfg ==
    [KeyFilename |-> "", UdpListenAddr |-> "", Edges |-> <<>>, BackupFilename |-> "",
     ShardCapacity |-> 0, TTL |-> 0, LogLevel |-> "", LogUnbuffered |-> FALSE, err |-> FALSE]

\* ----------------------------------------------------------------- state
VARIABLES rev, cmd, fault, numCPU, ntest, dflag, difficulty, key, val, privKey, npeer,
          clock, pc, i, dat, keyInc, peers, nroutine, wstate, wdat, wsol,
          chalch, solch, sendq, done, work, workClosed, datChClosed, errors, receiving,
          submitted, ack, reporter, exitCode, printed, http,
          built, keys, acked, handed, claims, solved, chalSent, solRecv, firstSol,
          cfgFilename, dataKeyFname, cfgFile, cfgFlags, unparsedCfg, withDefaults,
          nodeCfg, keyFilename, keyFile, dataPrivateKey, cpc,
          canBind, canFallback, serveFails, spc, lpc, bound, errChan, addrChan,
          listenAddr, ret, nErr, nAddr

\* the configuration main builds before the command runs
config == <<cfgFilename, dataKeyFname, cfgFile, cfgFlags, unparsedCfg, withDefaults,
            nodeCfg, keyFilename, keyFile, dataPrivateKey, cpc>>
params == <<rev, cmd, fault, numCPU, ntest, dflag, difficulty, key, val, privKey, npeer>>
\* func (svc *Service) Start(): the caller, the listener goroutine, the two
\* channels and svc.listenAddr
start == <<canBind, canFallback, serveFails, spc, lpc, bound, errChan, addrChan,
           listenAddr, ret, nErr, nAddr>>
inputs == <<params, config, start>>
orch == <<pc, i, dat, keyInc>>
pool == <<nroutine, wstate, wdat, wsol>>
queues == <<chalch, solch, sendq, done>>
batch == <<work, workClosed, datChClosed, errors, receiving>>
engine == <<submitted, ack, handed>>
proc == <<exitCode, printed, http>>
ghost == <<built, keys, acked, claims, solved, chalSent, solRecv, firstSol>>
\* everything but the configuration
run == <<params, clock, orch, peers, pool, queues, batch, engine, reporter, proc, ghost>>
core == <<run, start>>
vars == <<inputs, clock, orch, peers, pool, queues, batch, engine, reporter, proc, ghost>>

\* ncpu of the queued set: runtime.NumCPU() in main.go, max(NumCPU-1, 1) later
QueuedNcpu(r, n) == IF r = "main_set" THEN n ELSE Max(n - 1, 1)

\* ncpu of the raced set
RacedNcpuMinusOne(n) == Max(n - 1, 1)
RacedNcpu(n) == Max(n - 2, 1)

\* the progress reporter goroutine is started by every set; the keyed
\* set/put start it only for ntest == 1, the later puts have none
ReporterStarted(r, n) ==
    CASE r \in QueuedRevs \cup RacedRevs -> TRUE
      [] r \in {"p004_put", "p003_set773"} -> n = 1
      [] OTHER -> FALSE

\* where the command starts: the puts of part_000 and part_002 call the
\* peer gate first, the keyed set and the put of part_004 enter the loop
InitialPc(r) ==
    CASE r \in HttpRevs -> "serve"
      [] r \in {"p000_put", "p002_put"} -> "gate"
      [] r \in {"p004_put", "p003_set773"} -> "loop"
      [] OTHER -> "start"

\* ed25519.PrivateKeySize
PrivateKeySize == 64

\* what os.ReadFile finds under the key file's name: a file that cannot be
\* read, or the bytes of a file of some length around the key size
FileLengths == {0, 1, PrivateKeySize - 1, PrivateKeySize, PrivateKeySize + 1}
FileBytes(n, first) == [k \in 1..n |-> (first + k) % 256]
KeyFiles ==
    {[readable |-> FALSE, bytes |-> <<>>]} \cup
    {[readable |-> TRUE, bytes |-> FileBytes(n, first)] : n \in FileLengths, first \in {0, 255}}
\* no file looked at yet, no key read yet
NoFile == [readable |-> FALSE, bytes |-> <<>>]
NoKeyRead == [key |-> <<>>, isNil |-> TRUE, err |-> FALSE]

\* func ReadKeyFile(filename string) (ed25519.PrivateKey, error)
ReadKeyFileAnyLength(file) ==
    IF ~file.readable
    THEN [key |-> <<>>, isNil |-> TRUE, err |-> TRUE]
    ELSE [key |-> file.bytes, isNil |-> FALSE, err |-> FALSE]

ReadKeyFile(file) ==
    IF ~file.readable
    THEN [key |-> <<>>, isNil |-> TRUE, err |-> TRUE]
    ELSE IF Len(file.bytes) # PrivateKeySize
    THEN [key |-> <<>>, isNil |-> TRUE, err |-> TRUE]
    ELSE [key |-> file.bytes, isNil |-> FALSE, err |-> FALSE]

\* Service.Start is not part of the runs of Spec
StartOff ==
    /\ canBind = TRUE
    /\ canFallback = TRUE
    /\ serveFails = FALSE
    /\ spc = "off"
    /\ lpc = "off"
    /\ bound = "none"
    /\ errChan = <<>>
    /\ addrChan = <<>>
    /\ listenAddr = ""
    /\ ret = "none"
    /\ nErr = 0
    /\ nAddr = 0

\* the configuration is not part of the runs of Spec
ConfigOff ==
    /\ cfgFilename = ""
    /\ dataKeyFname = ""
    /\ cfgFile = EmptyCfg
    /\ cfgFlags = EmptyCfg
    /\ unparsedCfg = EmptyCfg
    /\ withDefaults = EmptyCfg
    /\ nodeCfg = NoNodeCfg
    /\ keyFilename = ""
    /\ keyFile = NoFile
    /\ dataPrivateKey = NoKeyRead
    /\ cpc = "off"

Init ==
    /\ ConfigOff
    /\ StartOff
    /\ rev \in Revs
    /\ cmd \in Cmds(rev)
    /\ fault \in Faults(rev, cmd)
    /\ numCPU \in CASE rev \in KeyedRevs \cup HttpRevs -> {1}
                     [] rev \in BatchRevs -> 1..MaxBatchCPU
                     [] cmd # CoreCmd(rev) \/ fault # "none" -> {1}
                     [] OTHER -> 1..MaxCPU
    /\ ntest \in CASE rev \in RacedRevs \cup HttpRevs -> {1}
                    [] rev \in BatchRevs /\ fault = "stall" -> 0..(MaxBatchNtest + 2 - numCPU)
                    [] cmd # CoreCmd(rev) \/ fault # "none" -> {1}
                    [] rev \in KeyedRevs -> 0..MaxKeyedNtest
                    [] rev \in BatchRevs -> 0..MaxBatchNtest
                    [] OTHER -> 0..MaxNtest
    /\ dflag \in CASE rev \in HttpRevs -> {0}
                    [] rev \in MainRevs -> 0..MaxFlagUint
                    [] OTHER -> 0..MaxDifficulty
    /\ difficulty = IF rev \in MainRevs THEN Uint8(dflag) ELSE dflag
    /\ key \in CASE rev \in KeyedRevs -> Keys
                  [] rev \in BatchRevs -> {<<"k">>}
                  [] OTHER -> {<<>>}
    /\ val \in Vals
    /\ privKey \in IF rev \in KeyedRevs THEN PrivKeys ELSE {1}
    /\ npeer \in IF rev = "p000_put" /\ cmd = "put" THEN 1..MaxPeers ELSE {1}
    /\ clock = Margin
    /\ pc = IF rev \in MainRevs THEN "main" ELSE InitialPc(rev)
    /\ i = 0
    /\ dat = NoDat
    /\ keyInc = key
    /\ peers = 0
    /\ nroutine = 0
    /\ wstate = [w \in Workers |-> "none"]
    /\ wdat = [w \in Workers |-> NoDat]
    /\ wsol = [w \in Workers |-> NoSol]
    /\ chalch = <<>>
    /\ solch = <<>>
    /\ sendq = <<>>
    /\ done = 0
    /\ work = <<>>
    /\ workClosed = FALSE
    /\ datChClosed = FALSE
    /\ errors = 0
    /\ receiving = TRUE
    /\ submitted = <<>>
    /\ ack = "none"
    /\ handed = 0
    /\ reporter = IF rev \notin MainRevs /\ ReporterStarted(rev, ntest) THEN "running" ELSE "none"
    /\ exitCode = 0
    /\ printed = FALSE
    /\ http = NoHttp
    /\ built = 0
    /\ keys = <<>>
    /\ acked = 0
    /\ claims = <<>>
    /\ solved = <<>>
    /\ chalSent = 0
    /\ solRecv = 0
    /\ firstSol = [w |-> 0, work |-> NoNum, salt |-> NoNum]

\* time.Now(): the wall clock never runs backwards between two reads
Now(c) == c..(IF c < MaxClock THEN c + 1 ELSE c)

\* the challenge of a record: chal{dat.V, dat.Ti}
ChalOfLater(d) == [NoDat EXCEPT !.Val = d.Val, !.Time = d.Time + 1, !.id = d.id]
ChalOf(d) == [NoDat EXCEPT !.Val = d.Val, !.Time = d.Time, !.id = d.id]

\* ------------------------------------------------------------- func main
\* func exit(code int, msg string, args ...any): fmt.Printf(msg); os.Exit(code)
exit(code) ==
    /\ exitCode' = code
    /\ printed' = TRUE
    /\ pc' = "exited"

\* main returns without calling exit: the process ends with status 0
return(msg) ==
    /\ pc' = "returned"
    /\ printed' = (printed \/ msg)
    /\ UNCHANGED exitCode

\* the case calls set / put
EnterCore ==
    /\ pc' = InitialPc(rev)
    /\ reporter' = IF ReporterStarted(rev, ntest) THEN "running" ELSE "none"
    /\ UNCHANGED <<exitCode, printed>>

\* the key set / put signs with: part_003:650-656 only prints when the key
\* file cannot be read and goes on with the nil key
LoadedKey == IF rev = "p003_set773" /\ fault = "keyfile" THEN NoPriv ELSE privKey

\* everything before the switch: addresses, config, NewDave, and in
\* part_003 the key file
MainInit ==
    /\ rev \in MainRevs
    /\ pc = "main"
    /\ IF fault = "cfg"
       THEN exit(1)
       ELSE /\ pc' = "switch"
            /\ printed' = (rev = "p003_set773" /\ fault = "keyfile")
            /\ UNCHANGED exitCode
    /\ UNCHANGED <<inputs, clock, i, dat, keyInc, peers, pool, queues, batch, engine, reporter,
                   http, ghost>>

\* case "version": fmt.Printf("commit %s\n", commit)
MainVersion ==
    /\ rev \in MainRevs
    /\ pc = "switch"
    /\ cmd = "version"
    /\ return(FALSE)
    /\ UNCHANGED <<inputs, clock, i, dat, keyInc, peers, pool, queues, batch, engine, reporter,
                   http, ghost>>

\* case "keygen": the result of os.WriteFile is dropped
MainKeygen ==
    /\ rev \in MainRevs
    /\ pc = "switch"
    /\ cmd = "keygen"
    /\ CASE rev = "p003_set773" /\ fault = "args" -> exit(1)
         [] fault = "keygen" -> exit(1)
         [] OTHER -> return(FALSE)
    /\ UNCHANGED <<inputs, clock, i, dat, keyInc, peers, pool, queues, batch, engine, reporter,
                   http, ghost>>

\* case "set": if flag.NArg() < 2 { exit(1, ...) }; set(...)
MainSet ==
    /\ rev \in MainRevs
    /\ pc = "switch"
    /\ cmd = "set"
    /\ IF fault = "args"
       THEN exit(1) /\ UNCHANGED reporter
       ELSE EnterCore
    /\ UNCHANGED <<inputs, clock, i, dat, keyInc, peers, pool, queues, batch, engine, http, ghost>>

\* case "setf": missing argument exit(1), os.ReadFile error exit(2); set(...)
MainSetf ==
    /\ rev \in MainRevs
    /\ pc = "switch"
    /\ cmd = "setf"
    /\ CASE fault = "args" -> exit(1) /\ UNCHANGED reporter
         [] fault = "infile" -> exit(2) /\ UNCHANGED reporter
         [] OTHER -> EnterCore
    /\ UNCHANGED <<inputs, clock, i, dat, keyInc, peers, pool, queues, batch, engine, http, ghost>>

\* case "put": initNode, cfg.ReadKeyFile, the argument count, put(...)
MainPut ==
    /\ rev \in MainRevs
    /\ pc = "switch"
    /\ cmd = "put"
    /\ CASE fault = "node" -> exit(1) /\ UNCHANGED reporter
         [] fault = "keyfile" -> return(TRUE) /\ UNCHANGED reporter
         [] fault = "args" -> exit(1) /\ UNCHANGED reporter
         [] OTHER -> EnterCore
    /\ UNCHANGED <<inputs, clock, i, dat, keyInc, peers, pool, queues, batch, engine, http, ghost>>

\* case "get"
MainGet ==
    /\ rev \in MainRevs
    /\ pc = "switch"
    /\ cmd = "get"
    /\ CASE fault \in {"args", "node", "hex", "notfound"} -> exit(1)
         [] rev = "p000_put" /\ fault = "keyfile" -> return(TRUE)
         [] OTHER -> return(FALSE)
    /\ UNCHANGED <<inputs, clock, i, dat, keyInc, peers, pool, queues, batch, engine, reporter,
                   http, ghost>>

\* ------------------------------------------------------------ queued set
\* go func(chalch <-chan chal) {...}(chalch), once per loop round
QSpawn ==
    /\ rev \in QueuedRevs
    /\ pc = "start"
    /\ nroutine < QueuedNcpu(rev, numCPU)
    /\ nroutine' = nroutine + 1
    /\ wstate' = [wstate EXCEPT ![nroutine + 1] = "recv"]
    /\ pc' = IF nroutine + 1 < QueuedNcpu(rev, numCPU) THEN "start" ELSE "loop"
    /\ UNCHANGED <<inputs, clock, i, dat, keyInc, peers, wdat, wsol, queues, batch, engine, reporter, proc, ghost>>

\* for i := 0; i < ntest; i++ { dat := &godave.Dat{V: val, Ti: time.Now()}
QConstruct ==
    /\ rev \in QueuedRevs
    /\ pc = "loop"
    /\ i < ntest
    /\ \E now \in Now(clock) :
          /\ clock' = now
          /\ dat' = [NoDat EXCEPT !.Val = val, !.Time = now, !.id = i]
    /\ built' = built + 1
    /\ pc' = "sendChal"
    /\ UNCHANGED <<inputs, i, keyInc, peers, pool, queues, batch, engine, reporter, proc,
                   keys, acked, claims, solved, chalSent, solRecv, firstSol>>

\* chalch <- chal{dat.V, dat.Ti}
QSendChal ==
    /\ rev \in QueuedRevs
    /\ pc = "sendChal"
    /\ Len(chalch) < ChalCap
    /\ chalch' = Append(chalch, ChalOf(dat))
    /\ chalSent' = chalSent + 1
    /\ claims' = Append(claims, 0)
    /\ solved' = Append(solved, 0)
    /\ pc' = "recvSol"
    /\ UNCHANGED <<inputs, clock, i, dat, keyInc, peers, pool, solch, sendq, done, batch, engine, reporter,
                   proc, built, keys, acked, solRecv, firstSol>>

\* for c := range chalch: the receive removes the challenge from the channel
QTakeChalPeek(ch) == ch
QTakeChal(ch) == Tail(ch)

QWorkerRecv(w) ==
    /\ rev \in QueuedRevs
    /\ wstate[w] = "recv"
    /\ chalch # <<>>
    /\ wdat' = [wdat EXCEPT ![w] = Head(chalch)]
    /\ chalch' = QTakeChal(chalch)
    /\ wstate' = [wstate EXCEPT ![w] = "working"]
    /\ claims' = [claims EXCEPT ![Head(chalch).id + 1] = @ + 1]
    /\ UNCHANGED <<inputs, clock, orch, peers, nroutine, wsol, solch, sendq, done, batch, engine, reporter,
                   proc, built, keys, acked, solved, chalSent, solRecv, firstSol>>

\* work, salt := godave.Work(c.v, godave.Ttb(c.ti), difficulty)
QWorkerWork(w) ==
    /\ rev \in QueuedRevs
    /\ wstate[w] = "working"
    /\ \E s \in WorkResults(wdat[w].Val, wdat[w].Time, difficulty) :
          wsol' = [wsol EXCEPT ![w] = [work |-> s.work, salt |-> s.salt, id |-> wdat[w].id]]
    /\ wstate' = [wstate EXCEPT ![w] = "sending"]
    /\ solved' = [solved EXCEPT ![wdat[w].id + 1] = @ + 1]
    /\ UNCHANGED <<inputs, clock, orch, peers, nroutine, wdat, queues, batch, engine, reporter,
                   proc, built, keys, acked, claims, chalSent, solRecv, firstSol>>

\* solch <- sol{work, salt}
QWorkerSendOnce(w) ==
    /\ rev \in QueuedRevs
    /\ wstate[w] = "sending"
    /\ Len(solch) < SolCap
    /\ solch' = Append(solch, wsol[w])
    /\ wstate' = [wstate EXCEPT ![w] = "exited"]
    /\ wdat' = [wdat EXCEPT ![w] = NoDat]
    /\ wsol' = [wsol EXCEPT ![w] = NoSol]
    /\ UNCHANGED <<inputs, clock, orch, peers, nroutine, chalch, sendq, done, batch, engine,
                   reporter, proc, ghost>>
QWorkerSendAgain(w) ==
    /\ rev \in QueuedRevs
    /\ wstate[w] = "sending"
    /\ Len(solch) < SolCap
    /\ solch' = Append(solch, wsol[w])
    /\ UNCHANGED <<inputs, clock, orch, peers, pool, chalch, sendq, done, batch, engine,
                   reporter, proc, ghost>>
QWorkerSend(w) ==
    /\ rev \in QueuedRevs
    /\ wstate[w] = "sending"
    /\ Len(solch) < SolCap
    /\ solch' = Append(solch, wsol[w])
    /\ wstate' = [wstate EXCEPT ![w] = "recv"]
    /\ wdat' = [wdat EXCEPT ![w] = NoDat]
    /\ wsol' = [wsol EXCEPT ![w] = NoSol]
    /\ UNCHANGED <<inputs, clock, orch, peers, nroutine, chalch, sendq, done, batch, engine,
                   reporter, proc, ghost>>

\* s := <-solch; dat.W = s.work; dat.S = s.salt
Attach(d, s) == [d EXCEPT !.Work = s.work, !.Salt = s.salt]

QRecvSol ==
    /\ rev \in QueuedRevs
    /\ pc = "recvSol"
    /\ solch # <<>>
    /\ dat' = Attach(dat, Head(solch))
    /\ solch' = Tail(solch)
    /\ solRecv' = solRecv + 1
    /\ pc' = "submit"
    /\ UNCHANGED <<inputs, clock, i, keyInc, peers, pool, chalch, sendq, done, batch, engine, reporter,
                   proc, built, keys, acked, claims, solved, chalSent, firstSol>>

\* d.Set(dat, rounds, npeer) hands the record to the engine
QSubmitNoWait ==
    /\ rev \in QueuedRevs
    /\ pc = "submit"
    /\ submitted' = Append(submitted, dat.Key)
    /\ handed' = handed + 1
    /\ i' = i + 1
    /\ dat' = NoDat
    /\ pc' = "loop"
    /\ UNCHANGED <<inputs, clock, keyInc, peers, pool, queues, batch, ack, reporter,
                   proc, ghost>>

QSubmit ==
    /\ rev \in QueuedRevs
    /\ pc = "submit"
    /\ submitted' = Append(submitted, dat.Key)
    /\ handed' = handed + 1
    /\ pc' = "awaitAck"
    /\ UNCHANGED <<inputs, clock, i, dat, keyInc, peers, pool, queues, batch, ack, reporter,
                   proc, ghost>>

\* the engine signals the channel returned by Set / Put
EngineAck ==
    /\ pc = "awaitAck"
    /\ ack = "none"
    /\ ack' = "ok"
    /\ UNCHANGED <<inputs, clock, orch, peers, pool, queues, batch, submitted, handed,
                   reporter, proc, ghost>>

\* <-d.Set(...) returns; next round of the loop
QRecvAck ==
    /\ rev \in QueuedRevs
    /\ pc = "awaitAck"
    /\ ack = "ok"
    /\ ack' = "none"
    /\ acked' = acked + 1
    /\ i' = i + 1
    /\ pc' = "loop"
    /\ dat' = NoDat
    /\ UNCHANGED <<inputs, clock, keyInc, peers, pool, queues, batch, submitted, handed,
                   reporter, proc, built, keys, claims, solved, chalSent, solRecv, firstSol>>

\* done <- struct{}{} after the loop: a rendezvous with the reporter
QFinish ==
    /\ rev \in QueuedRevs
    /\ pc = "loop"
    /\ i >= ntest
    /\ reporter = "running"
    /\ reporter' = "stopped"
    /\ pc' = "done"
    /\ UNCHANGED <<inputs, clock, i, dat, keyInc, peers, pool, queues, batch, engine, proc, ghost>>

\* ------------------------------------------------------------- raced set
\* dat := &godave.Dat{V: val, Ti: time.Now()}
RConstruct ==
    /\ rev \in RacedRevs
    /\ pc = "start"
    /\ \E now \in Now(clock) :
          /\ clock' = now
          /\ dat' = [NoDat EXCEPT !.Val = val, !.Time = now, !.id = 0]
    /\ built' = built + 1
    /\ pc' = "spawn"
    /\ UNCHANGED <<inputs, i, keyInc, peers, pool, queues, batch, engine, reporter, proc,
                   keys, acked, claims, solved, chalSent, solRecv, firstSol>>

\* go func(v []byte, ti time.Time) {...}(dat.V, dat.Ti), ncpu times
RSpawn ==
    /\ rev \in RacedRevs
    /\ pc = "spawn"
    /\ nroutine < RacedNcpu(numCPU)
    /\ nroutine' = nroutine + 1
    /\ wstate' = [wstate EXCEPT ![nroutine + 1] = "working"]
    /\ wdat' = [wdat EXCEPT ![nroutine + 1] = ChalOf(dat)]
    /\ pc' = IF nroutine + 1 < RacedNcpu(numCPU) THEN "spawn" ELSE "recvSol"
    /\ UNCHANGED <<inputs, clock, i, dat, keyInc, peers, wsol, queues, batch, engine, reporter,
                   proc, ghost>>

\* work, salt := godave.Work(v, godave.Ttb(ti), difficulty); the goroutine
\* then blocks in solch <- sol{work, salt} on the unbuffered channel
RWorkerWork(w) ==
    /\ rev \in RacedRevs
    /\ pc # "exited"
    /\ wstate[w] = "working"
    /\ \E s \in WorkResults(wdat[w].Val, wdat[w].Time, difficulty) :
          /\ wsol' = [wsol EXCEPT ![w] = [work |-> s.work, salt |-> s.salt, id |-> w]]
          /\ firstSol' = IF firstSol.w = 0 THEN [w |-> w, work |-> s.work, salt |-> s.salt] ELSE firstSol
    /\ wstate' = [wstate EXCEPT ![w] = "sending"]
    /\ sendq' = Append(sendq, w)
    /\ UNCHANGED <<inputs, clock, orch, peers, nroutine, wdat, chalch, solch, done, batch, engine, reporter,
                   proc, built, keys, acked, claims, solved, chalSent, solRecv>>

\* which blocked sender a receive on the unbuffered channel completes
RTakeLast(q) == q[Len(q)]
RTake(q) == Head(q)

\* s := <-solch; dat.W = s.work; dat.S = s.salt
RRecvSolAfterAll ==
    /\ rev \in RacedRevs
    /\ pc = "recvSol"
    /\ Len(sendq) = nroutine
    /\ LET w == RTake(sendq) IN
          /\ dat' = Attach(dat, wsol[w])
          /\ sendq' = SelectSeq(sendq, LAMBDA x : x # w)
          /\ wstate' = [wstate EXCEPT ![w] = "exited"]
          /\ wdat' = [wdat EXCEPT ![w] = NoDat]
          /\ wsol' = [wsol EXCEPT ![w] = NoSol]
    /\ solRecv' = solRecv + 1
    /\ pc' = "signalDone"
    /\ UNCHANGED <<inputs, clock, i, keyInc, peers, nroutine, chalch, solch, done, batch,
                   engine, reporter, proc, built, keys, acked, claims, solved, chalSent, firstSol>>
RRecvSol ==
    /\ rev \in RacedRevs
    /\ pc = "recvSol"
    /\ sendq # <<>>
    /\ LET w == RTake(sendq) IN
          /\ dat' = Attach(dat, wsol[w])
          /\ sendq' = SelectSeq(sendq, LAMBDA x : x # w)
          /\ wstate' = [wstate EXCEPT ![w] = "exited"]
          /\ wdat' = [wdat EXCEPT ![w] = NoDat]
          /\ wsol' = [wsol EXCEPT ![w] = NoSol]
    /\ solRecv' = solRecv + 1
    /\ pc' = "signalDone"
    /\ UNCHANGED <<inputs, clock, i, keyInc, peers, nroutine, chalch, solch, done, batch,
                   engine, reporter, proc, built, keys, acked, claims, solved, chalSent, firstSol>>

\* done <- struct{}{}
RSignalDone ==
    /\ rev \in RacedRevs
    /\ pc = "signalDone"
    /\ reporter = "running"
    /\ reporter' = "stopped"
    /\ pc' = "submit"
    /\ UNCHANGED <<inputs, clock, i, dat, keyInc, peers, pool, queues, batch, engine, proc, ghost>>

\* <-d.Set(*dat), or dapi.SendM(d, m) in part_003:168
RSubmit ==
    /\ rev \in RacedRevs
    /\ pc = "submit"
    /\ submitted' = Append(submitted, dat.Key)
    /\ handed' = handed + 1
    /\ pc' = "awaitAck"
    /\ UNCHANGED <<inputs, clock, i, dat, keyInc, peers, pool, queues, batch, ack, reporter,
                   proc, ghost>>

RRecvAck ==
    /\ rev \in RacedRevs
    /\ pc = "awaitAck"
    /\ ack = "ok"
    /\ ack' = "none"
    /\ acked' = acked + 1
    /\ pc' = "done"
    /\ UNCHANGED <<inputs, clock, i, dat, keyInc, peers, pool, queues, batch, submitted, handed,
                   reporter, proc, built, keys, claims, solved, chalSent, solRecv, firstSol>>

\* ----------------------------------------------------- the engine's side
\* the number of active peers the engine observes grows, up to the threshold
\* the gate waits for
PeerJoin ==
    /\ pc = "gate"
    /\ peers < npeer
    /\ peers' = peers + 1
    /\ UNCHANGED <<inputs, clock, orch, pool, queues, batch, engine, reporter, proc, ghost>>

\* Put of part_000 and SendM of part_003:168 return an error
EngineFail ==
    /\ rev \in {"p000_put", "p003_set138"}
    /\ pc = "awaitAck"
    /\ ack = "none"
    /\ ack' = "err"
    /\ UNCHANGED <<inputs, clock, orch, peers, pool, queues, batch, submitted, handed,
                   reporter, proc, ghost>>

\* if err != nil { exit(1, err.Error()) }
SubmitErrorIgnored ==
    /\ rev \in {"p000_put", "p003_set138"}
    /\ pc = "awaitAck"
    /\ ack = "err"
    /\ ack' = "none"
    /\ i' = i + 1
    /\ pc' = IF rev = "p000_put" THEN "loop" ELSE "done"
    /\ UNCHANGED <<inputs, clock, dat, keyInc, peers, pool, queues, batch, submitted, handed,
                   reporter, proc, ghost>>
SubmitError ==
    /\ rev \in {"p000_put", "p003_set138"}
    /\ pc = "awaitAck"
    /\ ack = "err"
    /\ ack' = "none"
    /\ exitCode' = 1
    /\ printed' = TRUE
    /\ UNCHANGED http
    /\ pc' = "exited"
    /\ UNCHANGED <<inputs, clock, i, dat, keyInc, peers, pool, queues, batch, submitted, handed,
                   reporter, ghost>>

\* ---------------------------------------------------------- keyed put/set
\* d.WaitForActivePeers(context.Background(), opt.PeerCount)
GateThresholdNone(n) == 0
GateThreshold(n) == n

\* the gate returned an error: the wait ended below the threshold
GateFailed == fault = "gate" /\ pc \notin {"main", "switch", "gate"} /\ peers < npeer

\* the result of WaitForActivePeers is dropped: put goes on either way
WaitForActivePeers ==
    /\ rev \in {"p000_put", "p002_put"}
    /\ pc = "gate"
    /\ peers >= GateThreshold(npeer) \/ fault = "gate"
    /\ pc' = IF rev = "p000_put" THEN "loop" ELSE "batchWriter"
    /\ UNCHANGED <<inputs, clock, i, dat, keyInc, peers, pool, queues, batch, engine, reporter,
                   proc, ghost>>

\* keyInc = Sprintf("%s_%d", key, i) for i > 0;
\* dat := &Dat{Key: keyInc, Val: val, Time: time.Now().Add(-100 * time.Millisecond)}
KConstruct ==
    /\ rev \in KeyedRevs
    /\ pc = "loop"
    /\ i < ntest
    /\ keyInc' = KeyInc(key, keyInc, i)
    /\ \E now \in Now(clock) :
          /\ clock' = now
          /\ dat' = [NoDat EXCEPT !.Key = keyInc', !.Val = val, !.Time = now - Margin, !.id = i]
    /\ built' = built + 1
    /\ keys' = Append(keys, keyInc')
    /\ pc' = "work"
    /\ UNCHANGED <<inputs, i, peers, pool, queues, batch, engine, reporter, proc,
                   acked, claims, solved, chalSent, solRecv, firstSol>>

\* dat.Work, dat.Salt = pow.DoWork(dat.Key, dat.Val, dat.Time, opt.Difficulty)
KWork ==
    /\ rev \in KeyedRevs
    /\ pc = "work"
    /\ \E s \in WorkResults(KeyCode(dat.Key) + dat.Val, dat.Time, difficulty) : dat' = Attach(dat, s)
    /\ pc' = "sign"
    /\ UNCHANGED <<inputs, clock, i, keyInc, peers, pool, queues, batch, engine, reporter, proc, ghost>>

\* dat.Sig = ed25519.Sign(privKey, dat.Work); dat.PubKey = privKey.Public()
SignedOverContent(d, priv) == [d EXCEPT !.Sig = Sign(priv, Content(d)), !.PubKey = Public(priv)]
SignedOverKey(d, priv) == [d EXCEPT !.Sig = Sign(priv, KeyCode(d.Key)), !.PubKey = Public(priv)]
Signed(d, priv) == [d EXCEPT !.Sig = Sign(priv, d.Work), !.PubKey = Public(priv)]

KSign ==
    /\ rev \in KeyedRevs
    /\ pc = "sign"
    /\ IF LoadedKey = NoPriv
       THEN \* ed25519.Sign panics on a key of the wrong length
            /\ exitCode' = 2
            /\ printed' = TRUE
            /\ pc' = "exited"
            /\ UNCHANGED dat
       ELSE /\ dat' = Signed(dat, LoadedKey)
            /\ pc' = "submit"
            /\ UNCHANGED <<exitCode, printed>>
    /\ UNCHANGED <<inputs, clock, i, keyInc, peers, pool, queues, batch, engine, reporter, http, ghost>>

\* d.Put(*dat) / d.Set(dat, npeer)
KSubmitBaseKey ==
    /\ rev \in KeyedRevs
    /\ pc = "submit"
    /\ submitted' = Append(submitted, key)
    /\ handed' = handed + 1
    /\ pc' = "awaitAck"
    /\ UNCHANGED <<inputs, clock, i, dat, keyInc, peers, pool, queues, batch, ack, reporter,
                   proc, ghost>>
KSubmit ==
    /\ rev \in KeyedRevs
    /\ pc = "submit"
    /\ submitted' = Append(submitted, dat.Key)
    /\ handed' = handed + 1
    /\ pc' = "awaitAck"
    /\ UNCHANGED <<inputs, clock, i, dat, keyInc, peers, pool, queues, batch, ack, reporter,
                   proc, ghost>>

\* Put returned nil / the ack channel was received; next round
KRecvAck ==
    /\ rev \in KeyedRevs
    /\ pc = "awaitAck"
    /\ ack = "ok"
    /\ ack' = "none"
    /\ acked' = acked + 1
    /\ i' = i + 1
    /\ pc' = "loop"
    /\ dat' = NoDat
    /\ UNCHANGED <<inputs, clock, keyInc, peers, pool, queues, batch, submitted, handed,
                   reporter, proc, built, keys, claims, solved, chalSent, solRecv, firstSol>>

\* done := make(chan struct{}, 1) in the keyed set and the put of part_004;
\* the put of part_000 has no done channel
DoneRevs == {"p004_put", "p003_set773"}
DoneCap == 1

\* time.Sleep(50ms); done <- struct{}{}: the send is taken when the reporter
\* is at its select or the buffer has room
KFinishUnbuffered ==
    /\ rev \in KeyedRevs
    /\ pc = "loop"
    /\ i >= ntest
    /\ rev \in DoneRevs => reporter = "running"
    /\ reporter' = CASE reporter = "running" -> "stopped"
                     [] OTHER -> reporter
    /\ pc' = "done"
    /\ UNCHANGED <<inputs, clock, i, dat, keyInc, peers, pool, queues, batch, engine, proc, ghost>>

KFinish ==
    /\ rev \in KeyedRevs
    /\ pc = "loop"
    /\ i >= ntest
    /\ rev \in DoneRevs => (reporter = "running" \/ done < DoneCap)
    /\ reporter' = CASE reporter = "running" -> "stopped"
                     [] reporter = "printing" -> "signalled"
                     [] OTHER -> reporter
    /\ done' = IF rev \in DoneRevs /\ reporter # "running" THEN done + 1 ELSE done
    /\ pc' = "done"
    /\ UNCHANGED <<inputs, clock, i, dat, keyInc, peers, pool, chalch, solch, sendq, batch, engine,
                   proc, ghost>>

\* ---------------------------------------------------- progress reporter
\* case <-tick.C: the reporter goroutine leaves its select to print
ReporterTickAfterDone ==
    /\ reporter \in {"running", "stopped"}
    /\ pc \notin {"exited", "returned"}
    /\ reporter' = "printing"
    /\ UNCHANGED <<inputs, clock, orch, peers, pool, queues, batch, engine, proc, ghost>>

ReporterTick ==
    /\ reporter = "running"
    /\ pc \notin {"done", "exited", "returned"}
    /\ reporter' = "printing"
    /\ UNCHANGED <<inputs, clock, orch, peers, pool, queues, batch, engine, proc, ghost>>

\* fmt.Printf("\rworking for %s...") returns and the for loop is back at the
\* select; a done signal buffered meanwhile (capacity 1) is received there
ReporterPrinted ==
    /\ reporter \in {"printing", "signalled"}
    /\ reporter' = IF reporter = "printing" THEN "running" ELSE "stopped"
    /\ done' = IF reporter = "signalled" THEN done - 1 ELSE done
    /\ UNCHANGED <<inputs, clock, orch, peers, pool, chalch, solch, sendq, batch, engine, proc,
                   ghost>>

\* ------------------------------------------------------ batch-writer put
\* datCh, errors, err := d.BatchWriter(pubKey)
BBatchWriter ==
    /\ rev \in BatchRevs
    /\ pc = "batchWriter"
    /\ pc' = "spawn"
    /\ UNCHANGED <<inputs, clock, i, dat, keyInc, peers, pool, queues, batch, engine, reporter,
                   proc, ghost>>

\* if err != nil { exit(1, "failed to get batch writer: %s", err) }
BBatchWriterError ==
    /\ rev \in BatchRevs
    /\ pc = "batchWriter"
    /\ exitCode' = 1
    /\ printed' = TRUE
    /\ UNCHANGED http
    /\ pc' = "exited"
    /\ UNCHANGED <<inputs, clock, i, dat, keyInc, peers, pool, queues, batch, engine, reporter, ghost>>

\* for i := 0; i < runtime.NumCPU(); i++ { wg.Add(1); go func() {...}() }
BSpawn ==
    /\ rev \in BatchRevs
    /\ pc = "spawn"
    /\ nroutine < numCPU
    /\ nroutine' = nroutine + 1
    /\ wstate' = [wstate EXCEPT ![nroutine + 1] = "recv"]
    /\ pc' = IF nroutine + 1 < numCPU THEN "spawn" ELSE "loop"
    /\ UNCHANGED <<inputs, clock, i, dat, keyInc, peers, wdat, wsol, queues, batch, engine, reporter,
                   proc, ghost>>

\* new := &dat.Dat{Key: keyInc, Val: val, Time: now - 100ms, PubKey: pubKey}
BConstruct ==
    /\ rev \in BatchRevs
    /\ pc = "loop"
    /\ i < ntest
    /\ keyInc' = KeyInc(key, keyInc, i)
    /\ \E now \in Now(clock) :
          /\ clock' = now
          /\ dat' = [NoDat EXCEPT !.Key = keyInc', !.Val = val, !.Time = now - Margin,
                                  !.PubKey = Public(privKey), !.id = i]
    /\ built' = built + 1
    /\ keys' = Append(keys, keyInc')
    /\ pc' = "sendWork"
    /\ UNCHANGED <<inputs, i, peers, pool, queues, batch, engine, reporter, proc,
                   acked, claims, solved, chalSent, solRecv, firstSol>>

\* work <- *new, on make(chan dat.Dat, runtime.NumCPU())
BSendWork ==
    /\ rev \in BatchRevs
    /\ pc = "sendWork"
    /\ Len(work) < numCPU
    /\ work' = Append(work, dat)
    /\ pc' = "select"
    /\ UNCHANGED <<inputs, clock, i, dat, keyInc, peers, pool, queues, receiving, workClosed, datChClosed,
                   errors, engine, reporter, proc, ghost>>

\* select { case err := <-errors: exit(1, ...) }
BSelectError ==
    /\ rev \in BatchRevs
    /\ pc = "select"
    /\ errors = 1
    /\ errors' = 2
    /\ exitCode' = 1
    /\ printed' = TRUE
    /\ UNCHANGED http
    /\ pc' = "exited"
    /\ UNCHANGED <<inputs, clock, i, dat, keyInc, peers, pool, queues, receiving, work, workClosed,
                   datChClosed, engine, reporter, ghost>>

\* select { default: }; fmt.Printf("put %s\n", new.Key); i++
BSelectDefault ==
    /\ rev \in BatchRevs
    /\ pc = "select"
    /\ errors # 1
    /\ i' = i + 1
    /\ pc' = "loop"
    /\ dat' = NoDat
    /\ UNCHANGED <<inputs, clock, keyInc, peers, pool, queues, batch, engine, reporter,
                   proc, ghost>>

\* close(work)
BCloseWorkLeftOpen ==
    /\ rev \in BatchRevs
    /\ pc = "loop"
    /\ i >= ntest
    /\ pc' = "wait"
    /\ UNCHANGED <<inputs, clock, i, dat, keyInc, peers, pool, queues, batch, engine, reporter,
                   proc, ghost>>

BCloseWork ==
    /\ rev \in BatchRevs
    /\ pc = "loop"
    /\ i >= ntest
    /\ workClosed' = TRUE
    /\ pc' = "wait"
    /\ UNCHANGED <<inputs, clock, i, dat, keyInc, peers, pool, queues, receiving, work, datChClosed,
                   errors, engine, reporter, proc, ghost>>

\* wg.Wait()
BWaitNoWait ==
    /\ rev \in BatchRevs
    /\ pc = "wait"
    /\ pc' = "closeDat"
    /\ UNCHANGED <<inputs, clock, i, dat, keyInc, peers, pool, queues, batch, engine, reporter,
                   proc, ghost>>
BWait ==
    /\ rev \in BatchRevs
    /\ pc = "wait"
    /\ \A w \in 1..nroutine : wstate[w] = "exited"
    /\ pc' = "closeDat"
    /\ UNCHANGED <<inputs, clock, i, dat, keyInc, peers, pool, queues, batch, engine, reporter,
                   proc, ghost>>

\* close(datCh); time.Sleep(50ms)
BCloseDat ==
    /\ rev \in BatchRevs
    /\ pc = "closeDat"
    /\ datChClosed' = TRUE
    /\ pc' = "done"
    /\ UNCHANGED <<inputs, clock, i, dat, keyInc, peers, pool, queues, receiving, work, workClosed,
                   errors, engine, reporter, proc, ghost>>


\* the range loop ends on the closed, drained channel; wg.Done()
BWorkerExit(w) ==
    /\ rev \in BatchRevs
    /\ pc # "exited"
    /\ wstate[w] = "recv"
    /\ work = <<>>
    /\ workClosed
    /\ wstate' = [wstate EXCEPT ![w] = "exited"]
    /\ UNCHANGED <<inputs, clock, orch, peers, nroutine, wdat, wsol, queues, batch, engine, reporter,
                   proc, ghost>>


\* w.Work, w.Salt = dat.DoWork(w.Sig, opt.Difficulty)
BWorkerWork(w) ==
    /\ rev \in BatchRevs
    /\ pc # "exited"
    /\ wstate[w] = "working"
    /\ \E s \in WorkResults(SigCode(wdat[w].Sig), 0, difficulty) :
          wdat' = [wdat EXCEPT ![w] = Attach(wdat[w], s)]
    /\ wstate' = [wstate EXCEPT ![w] = "sending"]
    /\ UNCHANGED <<inputs, clock, orch, peers, nroutine, wsol, queues, batch, engine, reporter,
                   proc, ghost>>



\* for w := range work { (&w).Sign(privKey)
BWorkerRecv(w) ==
    /\ rev \in BatchRevs
    /\ pc # "exited"
    /\ wstate[w] = "recv"
    /\ work # <<>>
    /\ wdat' = [wdat EXCEPT ![w] = [Head(work) EXCEPT !.Sig = Sign(privKey, Content(Head(work)))]]
    /\ work' = Tail(work)
    /\ wstate' = [wstate EXCEPT ![w] = "working"]
    /\ UNCHANGED <<inputs, clock, orch, peers, nroutine, wsol, queues, receiving, workClosed, datChClosed,
                   errors, engine, reporter, proc, ghost>>

\* datCh <- w: the send completes when the engine's batch writer receives
BWorkerSend(w) ==
    /\ rev \in BatchRevs
    /\ pc # "exited"
    /\ wstate[w] = "sending"
    /\ ~datChClosed
    /\ receiving
    /\ submitted' = Append(submitted, wdat[w].Key)
    /\ handed' = handed + 1
    /\ acked' = acked + 1
    /\ wstate' = [wstate EXCEPT ![w] = "recv"]
    /\ wdat' = [wdat EXCEPT ![w] = NoDat]
    /\ UNCHANGED <<inputs, clock, orch, peers, nroutine, wsol, queues, batch, ack, reporter, proc,
                   built, keys, claims, solved, chalSent, solRecv, firstSol>>

\* the engine's batch writer reports an error on the errors channel
BatchWriterError ==
    /\ rev \in BatchRevs
    /\ pc \notin {"exited", "done"}
    /\ handed > 0
    /\ errors = 0
    /\ errors' = 1
    /\ UNCHANGED <<inputs, clock, orch, peers, pool, queues, receiving, work, workClosed, datChClosed,
                   engine, reporter, proc, ghost>>

\* the engine's batch writer stops receiving from datCh, for good
BatchWriterStops ==
    /\ rev \in BatchRevs
    /\ fault = "stall"
    /\ pc \notin {"gate", "batchWriter", "exited", "done"}
    /\ receiving
    /\ receiving' = FALSE
    /\ UNCHANGED <<inputs, clock, orch, peers, pool, queues, work, workClosed, datChClosed,
                   errors, engine, reporter, proc, ghost>>

\* ------------------------------------------------------ the HTTP service
\* base64 text: "A" stands for a character of the URL alphabet, "*" for one
\* outside it
B64Chars == {"A", "*"}
B64Strings == UNION {[1..n -> B64Chars] : n \in 0..MaxB64Len}

RECURSIVE ValidPrefix(_)
ValidPrefix(s) == IF s = <<>> \/ Head(s) # "A" THEN 0 ELSE 1 + ValidPrefix(Tail(s))

\* base64.RawURLEncoding.DecodeString: six bits a character, no padding; a
\* character outside the alphabet or a lone trailing character is an error,
\* and the bytes decoded before it are returned with the error
B64DecodeLenient(s) == [err |-> FALSE, bytes |-> (6 * ValidPrefix(s)) \div 8]
B64Decode(s) ==
    [err |-> ValidPrefix(s) < Len(s) \/ ValidPrefix(s) % 4 = 1,
     bytes |-> (6 * ValidPrefix(s)) \div 8]

\* the bodies of POST /work: json is FALSE for a body json.Decode rejects
WorkRequests(r) ==
    IF r = "http_svc"
    THEN {[NoReq EXCEPT !.json = j, !.key = <<"k">>, !.val = v, !.time = t, !.difficulty = d] :
             j \in BOOLEAN, v \in Vals, t \in 0..MaxClock, d \in 0..MaxDifficulty}
    ELSE {[NoReq EXCEPT !.json = j, !.signature = g, !.difficulty = d] :
             j \in BOOLEAN, g \in B64Strings, d \in 0..MaxDifficulty}

\* the requests of /put: a body json.Decode rejects leaves every field
\* empty; the requests that are not POSTs carry one text in all four fields
PutRequests ==
    {[NoReq EXCEPT !.method = m] : m \in {"POST", "GET"}} \cup
    {[NoReq EXCEPT !.method = "GET", !.json = TRUE, !.salt = g, !.work = g, !.pubKey = g, !.sig = g] :
        g \in B64Strings} \cup
    {[NoReq EXCEPT !.method = "POST", !.json = TRUE, !.salt = f[1], !.work = f[2], !.pubKey = f[3], !.sig = f[4]] :
        f \in [1..4 -> B64Strings]}

\* the arguments of the Work Function call: pow.DoWork(req.Key, []byte(req.Val),
\* time.UnixMilli(req.Time), req.Difficulty) in http.go,
\* dat.DoWork(dat.Signature(sig), req.Difficulty) in part_006
WorkArgsNoTime(r, req) ==
    IF r = "http_svc"
    THEN [input |-> KeyCode(req.key) + req.val, t |-> 0, d |-> req.difficulty]
    ELSE [input |-> B64Decode(req.signature).bytes, t |-> 0, d |-> req.difficulty]
WorkArgs(r, req) ==
    IF r = "http_svc"
    THEN [input |-> KeyCode(req.key) + req.val, t |-> req.time, d |-> req.difficulty]
    ELSE [input |-> B64Decode(req.signature).bytes, t |-> 0, d |-> req.difficulty]

\* the status handleDoWork has written before it calls the Work Function:
\* part_006 writes 400 for a signature that does not decode or is not 64
\* bytes long and goes on; the first WriteHeader is the one that counts
DoWorkStatus(r, req) ==
    IF r = "p006_svc" /\ (B64Decode(req.signature).err \/ B64Decode(req.signature).bytes # SigSize)
    THEN StatusBadRequest
    ELSE StatusOK

\* func (svc *Service) handleDoWork(w, r)
HandleDoWork ==
    /\ rev \in HttpRevs
    /\ pc = "serve"
    /\ \E req \in WorkRequests(rev) :
          IF ~req.json
          THEN http' = [NoHttp EXCEPT !.handler = "work", !.req = req, !.status = StatusBadRequest]
          ELSE \E s \in WorkResults(WorkArgs(rev, req).input, WorkArgs(rev, req).t, WorkArgs(rev, req).d) :
                  http' = [NoHttp EXCEPT !.handler = "work", !.req = req,
                                         !.status = DoWorkStatus(rev, req),
                                         !.doWork = 1,
                                         !.work = s.work, !.salt = s.salt]
    /\ pc' = "served"
    /\ UNCHANGED <<inputs, clock, i, dat, keyInc, peers, pool, queues, batch, engine, reporter,
                   exitCode, printed, ghost>>

\* the checks of handlePostPut in the order of the code: the status written
\* by the first one that fails, 0 when all pass and Put is called
PostPutReject(req) ==
    CASE req.method # "POST" -> StatusBadRequest
      [] ~req.json -> StatusBadRequest
      [] B64Decode(req.salt).err -> StatusBadRequest
      [] B64Decode(req.work).err -> StatusBadRequest
      [] B64Decode(req.pubKey).err -> StatusBadRequest
      [] B64Decode(req.sig).err -> StatusBadRequest
      [] OTHER -> 0

\* func (svc *Service) handlePostPut(w, r): putErr is what svc.dave.Put returns
HandlePostPut ==
    /\ rev = "http_svc"
    /\ pc = "serve"
    /\ \E req \in PutRequests :
          IF PostPutReject(req) # 0
          THEN http' = [NoHttp EXCEPT !.handler = "put", !.req = req, !.status = PostPutReject(req)]
          ELSE \E putErr \in BOOLEAN :
                  http' = [NoHttp EXCEPT !.handler = "put", !.req = req, !.put = 1,
                                         !.putErr = putErr,
                                         !.status = IF putErr THEN StatusInternalServerError
                                                    ELSE StatusOK]
    /\ pc' = "served"
    /\ UNCHANGED <<inputs, clock, i, dat, keyInc, peers, pool, queues, batch, engine, reporter,
                   exitCode, printed, ghost>>

\* http.Serve(listener, nil): the response is sent and the server takes the
\* next request
ServeNext ==
    /\ rev \in HttpRevs
    /\ pc = "served"
    /\ pc' = "serve"
    /\ http' = NoHttp
    /\ UNCHANGED <<inputs, clock, i, dat, keyInc, peers, pool, queues, batch, engine, reporter,
                   exitCode, printed, ghost>>

\* ------------------------------------------------------------------ runs
Next ==
    \/ MainInit
    \/ MainVersion
    \/ MainKeygen
    \/ MainSet
    \/ MainSetf
    \/ MainPut
    \/ MainGet
    \/ HandleDoWork
    \/ HandlePostPut
    \/ ServeNext
    \/ QSpawn
    \/ QConstruct
    \/ QSendChal
    \/ \E w \in Workers : QWorkerRecv(w)
    \/ \E w \in Workers : QWorkerWork(w)
    \/ \E w \in Workers : QWorkerSend(w)
    \/ QRecvSol
    \/ QSubmit
    \/ EngineAck
    \/ QRecvAck
    \/ QFinish
    \/ RConstruct
    \/ RSpawn
    \/ \E w \in Workers : RWorkerWork(w)
    \/ RRecvSol
    \/ RSignalDone
    \/ RSubmit
    \/ RRecvAck
    \/ PeerJoin
    \/ EngineFail
    \/ SubmitError
    \/ WaitForActivePeers
    \/ KConstruct
    \/ KWork
    \/ KSign
    \/ KSubmit
    \/ KRecvAck
    \/ KFinish
    \/ ReporterTick
    \/ ReporterPrinted
    \/ BBatchWriter
    \/ BBatchWriterError
    \/ BSpawn
    \/ BConstruct
    \/ BSendWork
    \/ BSelectError
    \/ BSelectDefault
    \/ BCloseWork
    \/ BWait
    \/ BCloseDat
    \/ \E w \in Workers : BWorkerRecv(w)
    \/ \E w \in Workers : BWorkerExit(w)
    \/ \E w \in Workers : BWorkerWork(w)
    \/ \E w \in Workers : BWorkerSend(w)
    \/ BatchWriterError
    \/ BatchWriterStops

Spec == Init /\ [][Next]_vars

\* the runs of the queued set, with the scheduling the Go runtime and the
\* engine give it: a goroutine that can take a step takes it, Work returns,
\* the engine acknowledges, the reporter comes back to its select, and the
\* send on done is taken when the reporter is there
QueuedInit == Init /\ rev \in QueuedRevs

QueuedNext ==
    \/ MainInit
    \/ MainVersion
    \/ MainSet
    \/ MainSetf
    \/ MainGet
    \/ QSpawn
    \/ QConstruct
    \/ QSendChal
    \/ \E w \in Workers : QWorkerRecv(w)
    \/ \E w \in Workers : QWorkerWork(w)
    \/ \E w \in Workers : QWorkerSend(w)
    \/ QRecvSol
    \/ QSubmit
    \/ EngineAck
    \/ QRecvAck
    \/ QFinish
    \/ ReporterTick
    \/ ReporterPrinted

QueuedFairness ==
    /\ WF_vars(QSpawn)
    /\ WF_vars(QConstruct)
    /\ WF_vars(QSendChal)
    /\ WF_vars(\E w \in Workers : QWorkerRecv(w))
    /\ WF_vars(\E w \in Workers : QWorkerWork(w))
    /\ WF_vars(\E w \in Workers : QWorkerSend(w))
    /\ WF_vars(QRecvSol)
    /\ WF_vars(QSubmit)
    /\ WF_vars(EngineAck)
    /\ WF_vars(QRecvAck)
    /\ WF_vars(ReporterPrinted)
    /\ SF_vars(QFinish)

QueuedLive == QueuedInit /\ [][QueuedNext]_vars /\ QueuedFairness

\* the runs of the raced set: a goroutine that can take a step takes it and
\* the engine answers, but of the Work calls only the first worker's is
\* known to return
RacedInit == Init /\ rev \in RacedRevs

RacedNext ==
    \/ RConstruct
    \/ RSpawn
    \/ \E w \in Workers : RWorkerWork(w)
    \/ RRecvSol
    \/ RSignalDone
    \/ RSubmit
    \/ EngineAck
    \/ EngineFail
    \/ SubmitError
    \/ RRecvAck
    \/ ReporterTick
    \/ ReporterPrinted

RacedFairness ==
    /\ WF_vars(RConstruct)
    /\ WF_vars(RSpawn)
    /\ WF_vars(RWorkerWork(1))
    /\ WF_vars(RRecvSol)
    /\ WF_vars(RSubmit)
    /\ WF_vars(EngineAck)
    /\ WF_vars(SubmitError)
    /\ WF_vars(RRecvAck)
    /\ WF_vars(ReporterPrinted)
    /\ SF_vars(RSignalDone)

RacedLive == RacedInit /\ [][RacedNext]_vars /\ RacedFairness

\* the runs of the batch-writer put: every goroutine that can take a step
\* takes it, each DoWork call returns, and the batch writer takes what a
\* worker sends on datCh for as long as it is receiving
BatchInit == Init /\ rev \in BatchRevs /\ difficulty >= MaxDifficulty - 1

BatchNext ==
    \/ PeerJoin
    \/ WaitForActivePeers
    \/ BBatchWriter
    \/ BBatchWriterError
    \/ BSpawn
    \/ BConstruct
    \/ BSendWork
    \/ BSelectError
    \/ BSelectDefault
    \/ BCloseWork
    \/ BWait
    \/ BCloseDat
    \/ \E w \in Workers : BWorkerRecv(w)
    \/ \E w \in Workers : BWorkerExit(w)
    \/ \E w \in Workers : BWorkerWork(w)
    \/ \E w \in Workers : BWorkerSend(w)
    \/ BatchWriterError
    \/ BatchWriterStops

BatchFairness ==
    /\ WF_vars(BSpawn)
    /\ WF_vars(BConstruct)
    /\ WF_vars(BSendWork)
    /\ WF_vars(BSelectError \/ BSelectDefault)
    /\ WF_vars(BCloseWork)
    /\ WF_vars(BWait)
    /\ WF_vars(BCloseDat)
    /\ WF_vars(\E w \in Workers : BWorkerRecv(w))
    /\ \A w \in Workers : WF_vars(BWorkerExit(w))
    /\ \A w \in Workers : WF_vars(BWorkerWork(w))
    /\ \A w \in Workers : WF_vars(BWorkerSend(w))

BatchLive == BatchInit /\ [][BatchNext]_vars /\ BatchFairness

\* ------------------------------------------- configuration: package cfg
\* the backing array of a slice with the elements es and capacity c: the
\* cells past the length hold the zero string
Backing(es, c) == es \o [k \in 1..(c - Len(es)) |-> ""]

\* append(dst.Edges, src.Edges...) for a dst.Edges of capacity c: with room
\* in the backing array the new elements are written into it, past the
\* length of the caller's slice, else a new array is made. out is the slice
\* returned, dst what the caller's slice shows afterwards
MergeEdges(dstEdges, c, srcEdges) ==
    LET n == Len(dstEdges)
        m == Len(srcEdges)
        arr == Backing(dstEdges, c)
        written == [k \in 1..c |-> IF k > n /\ k <= n + m THEN srcEdges[k - n] ELSE arr[k]]
    IN IF n + m <= c
       THEN [out |-> SubSeq(written, 1, n + m), dst |-> SubSeq(written, 1, n)]
       ELSE [out |-> dstEdges \o srcEdges, dst |-> SubSeq(arr, 1, n)]

\* func MergeConfigs(dst, src NodeCfgUnparsed) *NodeCfgUnparsed
MergeConfigsDstWins(dst, src) ==
    [KeyFilename |-> IF src.KeyFilename # "" THEN src.KeyFilename ELSE dst.KeyFilename,
     UdpListenAddr |-> IF src.UdpListenAddr # "" THEN src.UdpListenAddr ELSE dst.UdpListenAddr,
     Edges |-> IF Len(src.Edges) > 0 THEN dst.Edges \o src.Edges ELSE dst.Edges,
     BackupFilename |-> IF src.BackupFilename # "" THEN src.BackupFilename ELSE dst.BackupFilename,
     ShardCapacity |-> IF dst.ShardCapacity # 0 THEN dst.ShardCapacity ELSE src.ShardCapacity,
     TTL |-> IF src.TTL # 0 THEN src.TTL ELSE dst.TTL,
     LogLevel |-> IF src.LogLevel # "" THEN src.LogLevel ELSE dst.LogLevel,
     LogUnbuffered |-> IF src.LogUnbuffered # "" THEN src.LogUnbuffered ELSE dst.LogUnbuffered]
MergeConfigsEdgesOverride(dst, src) ==
    [KeyFilename |-> IF src.KeyFilename # "" THEN src.KeyFilename ELSE dst.KeyFilename,
     UdpListenAddr |-> IF src.UdpListenAddr # "" THEN src.UdpListenAddr ELSE dst.UdpListenAddr,
     Edges |-> IF Len(src.Edges) > 0 THEN src.Edges ELSE dst.Edges,
     BackupFilename |-> IF src.BackupFilename # "" THEN src.BackupFilename ELSE dst.BackupFilename,
     ShardCapacity |-> IF src.ShardCapacity # 0 THEN src.ShardCapacity ELSE dst.ShardCapacity,
     TTL |-> IF src.TTL # 0 THEN src.TTL ELSE dst.TTL,
     LogLevel |-> IF src.LogLevel # "" THEN src.LogLevel ELSE dst.LogLevel,
     LogUnbuffered |-> IF src.LogUnbuffered # "" THEN src.LogUnbuffered ELSE dst.LogUnbuffered]

MergeConfigs(dst, src) ==
    [KeyFilename |-> IF src.KeyFilename # "" THEN src.KeyFilename ELSE dst.KeyFilename,
     UdpListenAddr |-> IF src.UdpListenAddr # "" THEN src.UdpListenAddr ELSE dst.UdpListenAddr,
     Edges |-> IF Len(src.Edges) > 0
               THEN MergeEdges(dst.Edges, Len(dst.Edges), src.Edges).out
               ELSE dst.Edges,
     BackupFilename |-> IF src.BackupFilename # "" THEN src.BackupFilename ELSE dst.BackupFilename,
     ShardCapacity |-> IF src.ShardCapacity # 0 THEN src.ShardCapacity ELSE dst.ShardCapacity,
     TTL |-> IF src.TTL # 0 THEN src.TTL ELSE dst.TTL,
     LogLevel |-> IF src.LogLevel # "" THEN src.LogLevel ELSE dst.LogLevel,
     LogUnbuffered |-> IF src.LogUnbuffered # "" THEN src.LogUnbuffered ELSE dst.LogUnbuffered]

\* strings.ToUpper on the log levels of the model
ToUpper(x) == IF x = "debug" THEN "DEBUG" ELSE x

\* for _, e := range withDefaults.Edges: empty strings are skipped, the
\* first edge that does not resolve ends the loop with an error
RECURSIVE ParseEdges(_)
ParseEdges(es) ==
    IF es = <<>> THEN [err |-> FALSE, addrs |-> <<>>]
    ELSE IF Head(es) = "" THEN ParseEdges(Tail(es))
    ELSE IF Head(es) = "bad" THEN [err |-> TRUE, addrs |-> <<>>]
    ELSE LET rest == ParseEdges(Tail(es))
         IN [err |-> rest.err, addrs |-> IF rest.err THEN <<>> ELSE <<Head(es)>> \o rest.addrs]

\* func ParseNodeCfg(unparsed *NodeCfgUnparsed) (*NodeCfg, error)
ParseNodeCfgNoSkip(unparsed) ==
    LET wd == MergeConfigs(defaultCfgUnparsed, unparsed)
        edges == IF \E k \in 1..Len(wd.Edges) : wd.Edges[k] = ""
                 THEN [err |-> TRUE, addrs |-> <<>>]
                 ELSE ParseEdges(wd.Edges)
    IN IF edges.err
       THEN [NoNodeCfg EXCEPT !.err = TRUE]
       ELSE [KeyFilename |-> wd.KeyFilename,
             UdpListenAddr |-> wd.UdpListenAddr,
             Edges |-> edges.addrs,
             BackupFilename |-> wd.BackupFilename,
             ShardCapacity |-> wd.ShardCapacity,
             TTL |-> wd.TTL,
             LogLevel |-> IF ToUpper(wd.LogLevel) = "DEBUG" THEN "DEBUG" ELSE "ERROR",
             LogUnbuffered |-> wd.LogUnbuffered # "",
             err |-> FALSE]

ParseNodeCfg(unparsed) ==
    LET wd == MergeConfigs(defaultCfgUnparsed, unparsed)
        edges == ParseEdges(wd.Edges)
    IN IF edges.err
       THEN [NoNodeCfg EXCEPT !.err = TRUE]
       ELSE [KeyFilename |-> wd.KeyFilename,
             UdpListenAddr |-> wd.UdpListenAddr,
             Edges |-> edges.addrs,
             BackupFilename |-> wd.BackupFilename,
             ShardCapacity |-> wd.ShardCapacity,
             TTL |-> wd.TTL,
             LogLevel |-> IF ToUpper(wd.LogLevel) = "DEBUG" THEN "DEBUG" ELSE "ERROR",
             LogUnbuffered |-> wd.LogUnbuffered # "",
             err |-> FALSE]

\* a run of main up to the command: the flags are parsed
CfgInit ==
    /\ StartOff
    /\ rev = "p000_put"
    /\ cmd = "put"
    /\ fault = "none"
    /\ numCPU = 1
    /\ ntest = 1
    /\ dflag = 0
    /\ difficulty = 0
    /\ key = <<"k">>
    /\ val = 1
    /\ privKey = 1
    /\ npeer = 1
    /\ clock = Margin
    /\ pc = "main"
    /\ i = 0
    /\ dat = NoDat
    /\ keyInc = key
    /\ peers = 0
    /\ nroutine = 0
    /\ wstate = [w \in Workers |-> "none"]
    /\ wdat = [w \in Workers |-> NoDat]
    /\ wsol = [w \in Workers |-> NoSol]
    /\ chalch = <<>>
    /\ solch = <<>>
    /\ sendq = <<>>
    /\ done = 0
    /\ work = <<>>
    /\ workClosed = FALSE
    /\ datChClosed = FALSE
    /\ errors = 0
    /\ receiving = TRUE
    /\ submitted = <<>>
    /\ ack = "none"
    /\ handed = 0
    /\ reporter = "none"
    /\ exitCode = 0
    /\ printed = FALSE
    /\ http = NoHttp
    /\ built = 0
    /\ keys = <<>>
    /\ acked = 0
    /\ claims = <<>>
    /\ solved = <<>>
    /\ chalSent = 0
    /\ solRecv = 0
    /\ firstSol = [w |-> 0, work |-> NoNum, salt |-> NoNum]
    /\ cfgFilename \in {"", "dave.yaml", "missing.yaml"}
    /\ dataKeyFname \in {"", "data.key"}
    /\ cfgFile \in IF cfgFilename = "dave.yaml"
                   THEN {CfgOf(FileValue, set, edges) : set \in FieldChoices, edges \in EdgeLists(0)}
                   ELSE {EmptyCfg}
    \* Edges: strings.Split(*edges, ","), one string at least
    /\ cfgFlags \in {CfgOf(FlagValue, set, edges) : set \in FieldChoices, edges \in EdgeLists(1)}
    /\ unparsedCfg = EmptyCfg
    /\ withDefaults = EmptyCfg
    /\ nodeCfg = NoNodeCfg
    /\ keyFilename = ""
    /\ keyFile = NoFile
    /\ dataPrivateKey = NoKeyRead
    /\ cpc = "flags"

\* unparsedCfg := cfgFlags; if cfgFilename != "" { cfgFile, err :=
\* cfg.ReadNodeCfgFile(cfgFilename); unparsedCfg = cfg.MergeConfigs(*cfgFile,
\* *cfgFlags) }
CfgMerge ==
    /\ cpc = "flags"
    /\ IF cfgFilename = "missing.yaml"
       THEN /\ cpc' = "exited"
            /\ UNCHANGED unparsedCfg
            /\ UNCHANGED cfgFile
       ELSE /\ unparsedCfg' = IF cfgFilename # "" THEN MergeConfigs(cfgFile, cfgFlags) ELSE cfgFlags
            \* the slice the YAML decoder left in cfgFile may have spare capacity
            /\ \E c \in Len(cfgFile.Edges)..(Len(cfgFile.Edges) + MaxEdges) :
                  cfgFile' = IF cfgFilename # "" /\ Len(cfgFlags.Edges) > 0
                             THEN [cfgFile EXCEPT !.Edges =
                                      MergeEdges(cfgFile.Edges, c, cfgFlags.Edges).dst]
                             ELSE cfgFile
            /\ cpc' = "merged"
    /\ UNCHANGED <<cfgFilename, dataKeyFname, cfgFlags, withDefaults, nodeCfg, keyFilename,
                   keyFile, dataPrivateKey, core>>

\* nodeCfg, err := cfg.ParseNodeCfg(unparsedCfg); if err != nil { exit(1, ...) }
CfgParse ==
    /\ cpc = "merged"
    /\ withDefaults' = MergeConfigs(defaultCfgUnparsed, unparsedCfg)
    /\ nodeCfg' = ParseNodeCfg(unparsedCfg)
    /\ cpc' = IF nodeCfg'.err THEN "exited" ELSE "parsed"
    /\ UNCHANGED <<cfgFilename, dataKeyFname, cfgFile, cfgFlags, unparsedCfg, keyFilename,
                   keyFile, dataPrivateKey, core>>

\* keyFilename := opt.DataKeyFilename; if keyFilename == "" { keyFilename =
\* nodeCfg.KeyFilename }
CfgKeyFilename ==
    /\ cpc = "parsed"
    /\ keyFilename' = IF dataKeyFname = "" THEN nodeCfg.KeyFilename ELSE dataKeyFname
    /\ cpc' = "keyFilename"
    /\ UNCHANGED <<cfgFilename, dataKeyFname, cfgFile, cfgFlags, unparsedCfg, withDefaults, nodeCfg,
                   keyFile, dataPrivateKey, core>>

\* dataPrivateKey, err := cfg.ReadKeyFile(keyFilename)
CfgReadKeyFile ==
    /\ cpc = "keyFilename"
    /\ \E file \in KeyFiles :
          /\ keyFile' = file
          /\ dataPrivateKey' = ReadKeyFile(file)
    /\ cpc' = "keyRead"
    /\ UNCHANGED <<cfgFilename, dataKeyFname, cfgFile, cfgFlags, unparsedCfg, withDefaults, nodeCfg,
                   keyFilename, core>>

CfgNext ==
    \/ CfgMerge
    \/ CfgParse
    \/ CfgKeyFilename
    \/ CfgReadKeyFile

CfgSpec == CfgInit /\ [][CfgNext]_vars

\* ------------------------------------------ Service.Start: package api
\* the addresses the service is configured with (part_000:120), the address
\* of the fallback listener on 127.0.0.1:0, and no listener
ListenAddrs == {"127.0.0.1:8080", "[::]:80"}
FallbackAddr == "127.0.0.1:0"
NoListener == "none"

\* errChan := make(chan error, 1); addrChan := make(chan string, 1)
StartChanCap == 1

\* Start has made the channels and started the goroutine; whether the two
\* listens succeed and whether http.Serve comes back is the environment's
StartInit ==
    /\ ConfigOff
    /\ rev \in HttpRevs
    /\ cmd = CoreCmd(rev)
    /\ fault = "none"
    /\ numCPU = 1
    /\ ntest = 1
    /\ dflag = 0
    /\ difficulty = 0
    /\ key = <<>>
    /\ val = 1
    /\ privKey = 1
    /\ npeer = 1
    /\ clock = Margin
    /\ pc = "start"
    /\ i = 0
    /\ dat = NoDat
    /\ keyInc = key
    /\ peers = 0
    /\ nroutine = 0
    /\ wstate = [w \in Workers |-> "none"]
    /\ wdat = [w \in Workers |-> NoDat]
    /\ wsol = [w \in Workers |-> NoSol]
    /\ chalch = <<>>
    /\ solch = <<>>
    /\ sendq = <<>>
    /\ done = 0
    /\ work = <<>>
    /\ workClosed = FALSE
    /\ datChClosed = FALSE
    /\ errors = 0
    /\ receiving = TRUE
    /\ submitted = <<>>
    /\ ack = "none"
    /\ handed = 0
    /\ reporter = "none"
    /\ exitCode = 0
    /\ printed = FALSE
    /\ http = NoHttp
    /\ built = 0
    /\ keys = <<>>
    /\ acked = 0
    /\ claims = <<>>
    /\ solved = <<>>
    /\ chalSent = 0
    /\ solRecv = 0
    /\ firstSol = [w |-> 0, work |-> NoNum, salt |-> NoNum]
    /\ canBind \in BOOLEAN
    /\ canFallback \in BOOLEAN
    /\ serveFails \in BOOLEAN
    /\ spc = "select"
    /\ lpc = "listen"
    /\ bound = NoListener
    /\ errChan = <<>>
    /\ addrChan = <<>>
    /\ listenAddr \in ListenAddrs
    /\ ret = "none"
    /\ nErr = 0
    /\ nAddr = 0

\* listener, err := net.Listen("tcp", svc.listenAddr)
LListen ==
    /\ lpc = "listen"
    /\ IF canBind
       THEN bound' = listenAddr /\ lpc' = "sendAddr"
       ELSE bound' = bound /\ lpc' = "fallback"
    /\ UNCHANGED <<canBind, canFallback, serveFails, spc, errChan, addrChan, listenAddr, ret,
                   nErr, nAddr, config, run>>

\* listener, err = net.Listen("tcp", "127.0.0.1:0")
LFallback ==
    /\ lpc = "fallback"
    /\ IF canFallback
       THEN bound' = FallbackAddr /\ lpc' = "sendAddr"
       ELSE bound' = bound /\ lpc' = "sendErr"
    /\ UNCHANGED <<canBind, canFallback, serveFails, spc, errChan, addrChan, listenAddr, ret,
                   nErr, nAddr, config, run>>

\* errChan <- err; return
LSendErrUnbuffered ==
    /\ lpc = "sendErr"
    /\ spc = "select"
    /\ ret' = "err"
    /\ spc' = "returned"
    /\ nErr' = nErr + 1
    /\ lpc' = "exit"
    /\ UNCHANGED <<canBind, canFallback, serveFails, bound, errChan, addrChan, listenAddr,
                   nAddr, config, run>>

LSendErr ==
    /\ lpc = "sendErr"
    /\ Len(errChan) < StartChanCap
    /\ errChan' = Append(errChan, "listen")
    /\ nErr' = nErr + 1
    /\ lpc' = "exit"
    /\ UNCHANGED <<canBind, canFallback, serveFails, spc, bound, addrChan, listenAddr, ret,
                   nAddr, config, run>>

\* addrChan <- listener.Addr().String(), then http.Serve(listener, nil)
LSendAddr ==
    /\ lpc = "sendAddr"
    /\ Len(addrChan) < StartChanCap
    /\ addrChan' = Append(addrChan, bound)
    /\ nAddr' = nAddr + 1
    /\ lpc' = "serving"
    /\ UNCHANGED <<canBind, canFallback, serveFails, spc, bound, errChan, listenAddr, ret,
                   nErr, config, run>>

\* http.Serve returns, always with a non-nil error
LServeReturns ==
    /\ lpc = "serving"
    /\ serveFails
    /\ lpc' = "sendServeErr"
    /\ UNCHANGED <<canBind, canFallback, serveFails, spc, bound, errChan, addrChan, listenAddr,
                   ret, nErr, nAddr, config, run>>

\* if err := http.Serve(listener, nil); err != nil { errChan <- err }
LSendServeErr ==
    /\ lpc = "sendServeErr"
    /\ Len(errChan) < StartChanCap
    /\ errChan' = Append(errChan, "serve")
    /\ nErr' = nErr + 1
    /\ lpc' = "exit"
    /\ UNCHANGED <<canBind, canFallback, serveFails, spc, bound, addrChan, listenAddr, ret,
                   nAddr, config, run>>

\* case err := <-errChan: return err
SRecvErr ==
    /\ spc = "select"
    /\ errChan # <<>>
    /\ errChan' = Tail(errChan)
    /\ ret' = "err"
    /\ spc' = "returned"
    /\ UNCHANGED <<canBind, canFallback, serveFails, lpc, bound, addrChan, listenAddr, nErr,
                   nAddr, config, run>>

\* case addr := <-addrChan: svc.listenAddr = addr; return nil
SRecvAddr ==
    /\ spc = "select"
    /\ addrChan # <<>>
    /\ listenAddr' = Head(addrChan)
    /\ addrChan' = Tail(addrChan)
    /\ ret' = "nil"
    /\ spc' = "returned"
    /\ UNCHANGED <<canBind, canFallback, serveFails, lpc, bound, errChan, nErr, nAddr, config,
                   run>>

\* case <-time.After(50 * time.Millisecond): the goroutine may be anywhere
STimeout ==
    /\ spc = "select"
    /\ ret' = "timeout"
    /\ spc' = "returned"
    /\ UNCHANGED <<canBind, canFallback, serveFails, lpc, bound, errChan, addrChan, listenAddr,
                   nErr, nAddr, config, run>>

StartNext ==
    \/ LListen
    \/ LFallback
    \/ LSendErr
    \/ LSendAddr
    \/ LServeReturns
    \/ LSendServeErr
    \/ SRecvErr
    \/ SRecvAddr
    \/ STimeout

StartSpec == StartInit /\ [][StartNext]_vars

TypeOK ==
    /\ rev \in Revs
    /\ done \in 0..DoneCap
    /\ cmd \in Cmds(rev)
    /\ fault \in Faults(rev, cmd)
    /\ dflag \in 0..MaxFlagUint
    /\ difficulty \in 0..MaxDifficulty
    /\ exitCode \in 0..2
    /\ printed \in BOOLEAN
    /\ http.status \in {0, StatusOK, StatusBadRequest, StatusInternalServerError}
    /\ numCPU \in 1..MaxCPU
    /\ nroutine \in 0..MaxCPU
    /\ i \in 0..ntest
    /\ Len(chalch) <= ChalCap
    /\ Len(solch) <= SolCap

\* ---------------------------------------------------------------- claims
\* the key the batch is expected to give iteration n (0-based)
ExpectedKey(n) == IF n = 0 THEN key ELSE key \o <<"_">> \o Itoa(n)

C2_BatchKeys ==
    rev \in KeyedRevs \cup BatchRevs =>
        /\ Len(keys) <= ntest
        /\ pc = "done" => Len(keys) = ntest
        /\ \A n \in 1..Len(keys) : keys[n] = ExpectedKey(n - 1)
        /\ \A m, n \in 1..Len(keys) : m # n => keys[m] # keys[n]

C2_Witness == rev = "p000_put" /\ Len(keys) = 11 /\ key = <<"k", "_", "1">> /\ pc = "done"

\* a record whose proof and signature are complete and consistent
Complete(d) ==
    /\ d.Work # NoNum
    /\ d.Salt # NoNum
    /\ d.Sig # NoSig
    /\ d.PubKey # NoKey
    /\ d.Work = Digest(KeyCode(d.Key) + d.Val, d.Time, d.Salt)
    /\ Satisfies(d.Work, difficulty)
    /\ d.Sig.signer = privKey
    /\ d.Sig.msg = d.Work
    /\ d.PubKey = Public(privKey)
    /\ Verify(d.PubKey, d.Work, d.Sig)

\* C3: every record the keyed put/set hands to the engine carries the work
\* and salt found for its own key, value and time, a signature over that
\* work by the caller's key, and the matching public key; none is unset.
C3_SubmittedRecordComplete ==
    (rev \in KeyedRevs /\ pc = "awaitAck") => (handed = i + 1 /\ Complete(dat))

C3_Witness == rev = "p004_put" /\ pc = "awaitAck" /\ i = 1 /\ difficulty = 2 /\ privKey = 2

\* every record a goroutine currently holds or has queued
LiveRecords ==
    {dat} \cup {wdat[w] : w \in Workers} \cup {work[n] : n \in 1..Len(work)}

C5_GateFirst ==
    rev \in {"p000_put", "p002_put"} =>
        /\ pc = "gate" =>
              /\ built = 0
              /\ handed = 0
              /\ nroutine = 0
              /\ dat = NoDat
              /\ work = <<>>
        /\ (built > 0 \/ handed > 0 \/ nroutine > 0) => (peers >= npeer \/ GateFailed)

C5_Witness == rev = "p000_put" /\ npeer = 2 /\ peers = 2 /\ handed = 2

\* C6: in the queued set every challenge sent is received by exactly one
\* worker, which produces exactly one solution for it; none is lost and
\* the solutions delivered never outnumber the challenges sent.
C6_OneWorkerPerChallenge ==
    rev \in QueuedRevs =>
        /\ Len(claims) = chalSent
        /\ \A n \in 1..Len(claims) : claims[n] <= 1 /\ solved[n] <= claims[n]
        /\ \A n \in 1..solRecv : claims[n] = 1 /\ solved[n] = 1
        /\ solRecv + Len(solch) <= chalSent
        /\ Len(chalch) + Cardinality({w \in Workers : wstate[w] \in {"working", "sending"}})
              + Len(solch) + solRecv = chalSent

C6_Witness == rev = "main_set" /\ numCPU = 3 /\ solRecv = 2 /\ wstate[2] = "working"

\* C7: in the raced set every launched worker searches the record's own
\* (value, time); the orchestrator receives exactly one solution, the first
\* one delivered on the solution channel, attaches it to the record, and
\* receives from no other worker.
C7_FirstSolutionWins ==
    rev \in RacedRevs =>
        /\ \A w \in Workers : wstate[w] \in {"working", "sending"} =>
              (wdat[w].Val = dat.Val /\ wdat[w].Time = dat.Time)
        /\ solRecv <= 1
        /\ solRecv = 1 =>
              /\ firstSol.w # 0
              /\ dat.Work = firstSol.work
              /\ dat.Salt = firstSol.salt
              /\ \A w \in Workers : wstate[w] = "exited" <=> w = firstSol.w
        /\ solRecv = 0 => (dat.Work = NoNum /\ \A w \in Workers : wstate[w] # "exited")

C7_Witness ==
    /\ rev = "p002_set"
    /\ pc = "done"
    /\ firstSol.w = 2
    /\ wstate[1] = "sending"
    /\ wsol[1].salt # dat.Salt

\* C8: the queued set starts max(availableCores - 1, 1) worker goroutines.
C8_QueuedPoolSize ==
    (rev \in QueuedRevs /\ pc # "start") => nroutine = Max(numCPU - 1, 1)

C10_SamePredicate ==
    (rev \in QueuedRevs \cup RacedRevs /\ dat.Work # NoNum) =>
        /\ dat.Work = Digest(dat.Val, dat.Time, dat.Salt)
        /\ Satisfies(dat.Work, difficulty)

C10_Witness == rev = "p001_set" /\ pc = "awaitAck" /\ i = 1 /\ difficulty = 2 /\ dat.Time = 2

C12_TimestampMargin ==
    [][built' = built + 1 => (dat'.Time = clock' - Margin /\ dat'.Time < clock')]_vars

\* C13: when Put returns an error in iteration i of put, the error is printed
\* and the process exits with status 1 at once: the records of iterations
\* 0..i-1 stay submitted (what was handed over is never taken back), and no
\* record is constructed or handed over after the failed one.
C13_SubmitErrorStops ==
    /\ [](rev = "p000_put" /\ pc = "exited" /\ built > 0 =>
             /\ exitCode = 1
             /\ printed
             /\ acked = i
             /\ built = i + 1
             /\ handed = i + 1
             /\ Len(submitted) = i + 1
             /\ \A n \in 1..Len(submitted) : submitted[n] = ExpectedKey(n - 1))
    /\ [][rev = "p000_put" =>
             /\ Len(submitted') >= Len(submitted)
             /\ SubSeq(submitted', 1, Len(submitted)) = submitted
             /\ ack = "err" => (pc' = "exited" /\ exitCode' = 1)
             /\ pc = "exited" => (built' = built /\ handed' = handed)]_vars

C13_Witness ==
    /\ rev = "p000_put"
    /\ pc = "exited"
    /\ exitCode = 1
    /\ i = 2
    /\ acked = 2
    /\ handed = 3
    /\ ntest = 5

\* C14: in the batch-writer put every error the engine emits on the errors
\* channel is reported: put never returns normally (status 0) while an error
\* it has not read is pending, whenever the error arrived.
C14_BatchErrorsReported ==
    (rev \in BatchRevs /\ errors = 1) => (pc # "done" /\ (pc = "exited" => exitCode = 1))

\* C15: when WaitForActivePeers returns an error, put reports it and
\* constructs, works and submits no record: the run ends with a message and
\* a non-zero status.
C15_GateErrorReported ==
    GateFailed =>
        /\ built = 0
        /\ handed = 0
        /\ pc = "done" => (exitCode # 0 /\ printed)

\* a base64 text that decodes: only characters of the alphabet and no lone
\* trailing character; the number of bytes it decodes to
WellFormed(s) == (\A n \in 1..Len(s) : s[n] = "A") /\ Len(s) % 4 # 1
DecodedLen(s) == (6 * Len(s)) \div 8

\* C16: a /work request whose body is malformed JSON, or (part_006) whose
\* signature is not valid base64 or does not decode to a signature-sized
\* value, is answered with status 400 and the Work Function is not called
\* for it.
C16_BadWorkRequestRejected ==
    (/\ http.handler = "work"
     /\ \/ ~http.req.json
        \/ /\ rev = "p006_svc"
           /\ ~WellFormed(http.req.signature) \/ DecodedLen(http.req.signature) # SigSize) =>
        /\ http.status = StatusBadRequest
        /\ http.doWork = 0

\* the request is a POST whose JSON body and four base64 fields decode
Decodable(q) ==
    /\ q.method = "POST"
    /\ q.json
    /\ WellFormed(q.salt)
    /\ WellFormed(q.work)
    /\ WellFormed(q.pubKey)
    /\ WellFormed(q.sig)

C18_UnreadableKeyStops ==
    fault = "keyfile" =>
        /\ built = 0
        /\ dat.Work = NoNum
        /\ dat.Sig = NoSig
        /\ handed = 0
        /\ pc \in {"returned", "exited", "done"} => printed

\* C19: every failure path of the put command (node initialisation failure,
\* unreadable data key file, missing arguments, error returned by Put) ends
\* the process with a non-zero exit status after printing a message.
C19_PutFailuresExitNonZero ==
    (/\ rev = "p000_put"
     /\ cmd = "put"
     /\ \/ (fault \in {"node", "keyfile", "args"} /\ pc \in {"returned", "exited", "done"})
        \/ (pc = "exited" /\ built > 0)) =>
        /\ exitCode # 0
        /\ printed

\* C20: the process status is 1 for every usage error (missing argument,
\* invalid hex work) and operational error (dat not found, engine creation
\* failure) and 2 for every file I/O error (unreadable setf input file,
\* failed key file write in keygen).
C20_ExitCodes ==
    (rev \in MainRevs /\ pc \in {"returned", "exited", "done"}) =>
        /\ fault \in {"args", "hex", "notfound", "cfg", "node"} => exitCode = 1
        /\ fault \in {"infile", "keywrite"} => exitCode = 2

\* the orchestrator is at a send on the unbuffered done channel
AtDoneSignal ==
    /\ rev \in QueuedRevs \cup RacedRevs
    /\ pc = "signalDone" \/ (pc = "loop" /\ i >= ntest)

\* C21: the progress reporter has no effect on the orchestrator: a step of
\* the reporter goroutine (a tick handled, a print finished) changes nothing
\* the orchestrator, the workers or the engine see, and the orchestrator never
\* waits on the reporter: whenever it reaches its done signal it can proceed,
\* whatever the reporter is doing.
C21_ReporterObservational ==
    /\ [](AtDoneSignal => reporter = "running")
    /\ [][{reporter, reporter'} = {"running", "printing"} =>
            UNCHANGED <<inputs, clock, orch, peers, pool, queues, batch, engine, proc, ghost>>]_vars

\* the keys handed to the engine are K, K_1, ... in this order
HandedInOrder == \A n \in 1..Len(submitted) : submitted[n] = ExpectedKey(n - 1)

WorkCalled ==
    \/ dat.Work # NoNum
    \/ \E w \in Workers : wsol[w] # NoSol \/ wdat[w].Work # NoNum
    \/ handed > 0

\* C23: the difficulty passed to every Work Function call of a run is the
\* value configured with the -d flag, for every value the flag accepts, and
\* every solution found in the run satisfies that configured difficulty.
C23_DifficultyAsConfigured ==
    (rev \in MainRevs /\ WorkCalled) =>
        /\ difficulty = dflag
        /\ dat.Work # NoNum => Satisfies(dat.Work, dflag)

\* the value a scalar field is expected to have after all merges: the
\* flag's when the flag sets it, else the config file's when it sets it,
\* else the built-in default
Effective(f) ==
    IF cfgFlags[f] # Zero(f) THEN cfgFlags[f]
    ELSE IF cfgFilename = "dave.yaml" /\ cfgFile[f] # Zero(f) THEN cfgFile[f]
    ELSE defaultCfgUnparsed[f]

\* C24: for every scalar field MergeConfigs(dst, src) yields src's value
\* when src sets the field and dst's value otherwise; as applied in main
\* (file merged with flags, then defaults merged with the result) a flag
\* overrides the config file and the config file overrides the default.
C24_MergePrecedence ==
    /\ (cpc \in {"merged", "parsed", "keyFilename", "keyRead"} /\ cfgFilename = "dave.yaml") =>
          \A f \in ScalarFields :
              unparsedCfg[f] = IF cfgFlags[f] # Zero(f) THEN cfgFlags[f] ELSE cfgFile[f]
    /\ cpc \in {"parsed", "keyFilename", "keyRead"} =>
          \A f \in ScalarFields :
              /\ withDefaults[f] = IF unparsedCfg[f] # Zero(f) THEN unparsedCfg[f]
                                   ELSE defaultCfgUnparsed[f]
              /\ withDefaults[f] = Effective(f)

C24_Witness ==
    /\ cpc = "parsed"
    /\ cfgFilename = "dave.yaml"
    /\ cfgFile.ShardCapacity = 1
    /\ cfgFlags.ShardCapacity = 2
    /\ withDefaults.ShardCapacity = 2
    /\ withDefaults.TTL = 1
    /\ withDefaults.KeyFilename = "file.key"
    /\ withDefaults.UdpListenAddr = "[::]:1"

\* the run has no config file and sets no flag
NothingConfigured ==
    /\ cfgFilename = ""
    /\ dataKeyFname = ""
    /\ cfgFlags = CfgOf(FlagValue, {}, <<"">>)

\* C25: with no config file and no flags set the effective configuration
\* has the defaults of the README: data key file "key.dave", listen address
\* "[::]:127", shard capacity 10000, log level ERROR, no edges and no backup
\* file.
C25_ReadmeDefaults ==
    (NothingConfigured /\ cpc = "keyFilename") =>
        /\ keyFilename = "key.dave"
        /\ nodeCfg.UdpListenAddr = "[::]:127"
        /\ nodeCfg.ShardCapacity = 10000
        /\ nodeCfg.LogLevel = "ERROR"
        /\ nodeCfg.Edges = <<>>
        /\ nodeCfg.BackupFilename = ""

\* the challenges of the queued set that were sent and whose solution the
\* orchestrator has not received yet
Outstanding == chalSent - solRecv

\* C26: in the queued set at most one challenge is outstanding at any time,
\* so at most one worker holds a challenge or a solution at any time, and
\* whatever is in flight (the queued challenge, the worker's challenge, the
\* solution on the channel) belongs to the orchestrator's current iteration:
\* the solution received in iteration i is the one of iteration i's challenge.
C26_OneOutstanding ==
    rev \in QueuedRevs =>
        /\ Outstanding \in {0, 1}
        /\ Outstanding = 1 <=> pc = "recvSol"
        /\ Len(chalch) + Cardinality({w \in Workers : wstate[w] \in {"working", "sending"}})
              + Len(solch) = Outstanding
        /\ \A n \in 1..Len(chalch) : chalch[n].id = i /\ chalch[n].Time = dat.Time
        /\ \A w \in Workers : wstate[w] = "working" => (wdat[w].id = i /\ wdat[w].Time = dat.Time)
        /\ \A w \in Workers : wstate[w] = "sending" => wsol[w].id = i
        /\ \A n \in 1..Len(solch) : solch[n].id = i
        /\ pc \in {"submit", "awaitAck"} => dat.Work = Digest(dat.Val, dat.Time, dat.Salt)

C26_Witness ==
    /\ rev = "p003_set533"
    /\ numCPU = 4
    /\ i = 2
    /\ pc = "recvSol"
    /\ solch # <<>>
    /\ wstate[1] = "recv" /\ wstate[2] = "recv" /\ wstate[3] = "recv"

\* every worker goroutine of the queued set is blocked in its receive on
\* the challenge channel, which is empty
WorkersIdle ==
    /\ chalch = <<>>
    /\ \A w \in Workers : wstate[w] = (IF w <= QueuedNcpu(rev, numCPU) THEN "recv" ELSE "none")

\* C27: the queued set returns after exactly ntest iterations, for every
\* ntest >= 0, provided each Work call returns and each Set is acknowledged:
\* once entered it always reaches its return, having built, handed over and
\* seen acknowledged ntest records, and at the return every worker goroutine
\* is still blocked receiving on the challenge channel, which is never
\* closed.
C27_QueuedReturns ==
    /\ (rev \in QueuedRevs /\ pc = "start") ~> (pc = "done")
    /\ []((rev \in QueuedRevs /\ pc = "done") =>
             /\ i = ntest
             /\ built = ntest
             /\ handed = ntest
             /\ acked = ntest
             /\ solch = <<>>
             /\ WorkersIdle)
    /\ [](rev \in QueuedRevs => \A w \in Workers : wstate[w] # "exited")

C27_Witness ==
    /\ rev = "p001_set"
    /\ pc = "done"
    /\ ntest = 3
    /\ numCPU = 3
    /\ handed = 3
    /\ wstate[1] = "recv" /\ wstate[2] = "recv"

\* C28: the raced set returns after exactly one submission as soon as one
\* Work call has returned and the submission is answered, without waiting
\* for the other workers (they may still be computing at the return); a
\* worker that finishes after the first stays blocked in its send on the
\* unbuffered solution channel, and no worker is cancelled.
C28_RacedReturns ==
    /\ (rev \in RacedRevs /\ pc = "start") ~> (pc \in {"done", "exited"})
    /\ []((rev \in RacedRevs /\ pc = "done") =>
             /\ solRecv = 1
             /\ handed = 1
             /\ acked = 1
             /\ Cardinality({w \in Workers : wstate[w] = "exited"}) = 1)
    /\ []((rev \in RacedRevs /\ pc = "exited") =>
             (rev = "p003_set138" /\ handed = 1 /\ acked = 0 /\ exitCode = 1))
    /\ [][(rev \in RacedRevs) =>
             (\A w \in Workers :
                 /\ (wstate[w] = "sending" /\ solRecv = 1) => wstate'[w] = "sending"
                 /\ wstate[w] = "working" => wstate'[w] \in {"working", "sending"}
                 /\ (wstate'[w] = "exited" /\ wstate[w] # "exited") => solRecv = 0)]_vars

C28_Witness ==
    /\ rev = "p003_set348"
    /\ pc = "done"
    /\ numCPU = 4
    /\ handed = 1
    /\ acked = 1
    /\ wstate[1] = "working"
    /\ wstate[2] = "exited"

\* the records put has queued on the work channel so far
Queued == IF pc = "sendWork" THEN built - 1 ELSE built

\* the worker goroutines of the batch-writer put that hold a record
Holding == {w \in Workers : wstate[w] \in {"working", "sending"}}

\* C29: in the batch-writer put datCh is closed only after the work channel
\* was closed and every worker goroutine has exited, so no worker is left
\* to send on the closed channel; every record queued on the work channel is
\* in exactly one place (the channel, one worker, or handed to datCh), a
\* record is sent only signed and worked, and at the close each of the ntest
\* records has been sent exactly once.
C29_CloseAfterWorkers ==
    rev \in BatchRevs =>
        /\ datChClosed =>
              /\ workClosed
              /\ work = <<>>
              /\ \A w \in Workers : wstate[w] = (IF w <= numCPU THEN "exited" ELSE "none")
              /\ Len(submitted) = ntest
              /\ \A k \in 0..(ntest - 1) :
                    Cardinality({n \in 1..Len(submitted) : submitted[n] = ExpectedKey(k)}) = 1
        /\ Len(work) + Cardinality(Holding) + Len(submitted) = Queued
        /\ \A w \in Workers : wstate[w] = "sending" =>
              /\ ~datChClosed
              /\ wdat[w].Sig = Sign(privKey, Content(wdat[w]))
              /\ wdat[w].Work = Digest(SigCode(wdat[w].Sig), 0, wdat[w].Salt)
        /\ \A m, n \in 1..Len(submitted) : m # n => submitted[m] # submitted[n]
        /\ \A w, x \in Holding : w # x => wdat[w].Key # wdat[x].Key

C29_Witness ==
    /\ rev = "p002_put"
    /\ datChClosed
    /\ ntest = 2
    /\ numCPU = 2
    /\ submitted = <<ExpectedKey(1), ExpectedKey(0)>>

AtKeyedDoneSend == rev \in DoneRevs /\ pc = "loop" /\ i >= ntest

\* C31: in the keyed set and put the final send on done never blocks the
\* orchestrator, with or without a reporter goroutine (ntest = 1 or not):
\* whenever the orchestrator is at the send it can take it, the channel
\* never holds more than its capacity of one value, and a value is sent on
\* it only by the step that ends the call, so exactly once per call
C31_DoneSendNeverBlocks ==
    /\ [](AtKeyedDoneSend => ENABLED KFinish)
    /\ [](done <= 1)
    /\ [][(done' > done) => (AtKeyedDoneSend /\ pc' = "done")]_vars
    /\ [][(AtKeyedDoneSend /\ pc' = "done") =>
              (done' = done + 1 \/ (reporter = "running" /\ reporter' = "stopped"))]_vars

\* the call ended with ntest # 1: no reporter was started and the value
\* stays in the buffer
C31_Witness ==
    /\ rev = "p003_set773" /\ ntest = 2 /\ pc = "done" /\ reporter = "none" /\ done = 1

\* the revisions whose set signals the reporter on an unbuffered done
SignalRevs == QueuedRevs \cup RacedRevs

\* C32: the reporter of the queued and the raced set is torn down by the
\* orchestrator's signal: the reporter receives done only in the step in
\* which the orchestrator sends it, that step happens once per call and has
\* happened when the call is over, and a reporter that has received done
\* stays terminated and never prints again
C32_ReporterTornDown ==
    /\ [][(rev \in SignalRevs /\ reporter # "stopped" /\ reporter' = "stopped") =>
              (/\ reporter = "running"
               /\ \/ (rev \in QueuedRevs /\ pc = "loop" /\ i >= ntest /\ pc' = "done")
                  \/ (rev \in RacedRevs /\ pc = "signalDone" /\ pc' = "submit"))]_vars
    /\ [][(rev \in SignalRevs /\ reporter = "stopped") => (reporter' = "stopped")]_vars
    /\ []((rev \in SignalRevs /\ reporter = "stopped") =>
              (~ENABLED ReporterTick /\ ~ENABLED ReporterPrinted))
    /\ []((rev \in SignalRevs /\ pc = "done") => reporter = "stopped")
    /\ []((rev \in RacedRevs /\ pc \in {"submit", "awaitAck"}) => reporter = "stopped")

\* the queued set returned after two records with its reporter stopped
C32_Witness ==
    /\ rev \in QueuedRevs /\ ntest = 2 /\ handed = 2 /\ pc = "done" /\ reporter = "stopped"

\* Start has returned an error: the one of the listener goroutine or the
\* timeout
StartFailed == spc = "returned" /\ ret \in {"err", "timeout"}

\* the part of C33 about the nil result: a listener is bound, on the
\* configured address or on the fallback address after the configured one
\* failed, and svc.listenAddr is the bound address
StartNilMeansBound ==
    (spc = "returned" /\ ret = "nil") =>
        /\ bound # NoListener
        /\ listenAddr = bound
        /\ bound = FallbackAddr <=> ~canBind

\* the part of C33 about the two failed listens: Start does not return nil
StartBothFailMeansError ==
    (spc = "returned" /\ ~canBind /\ ~canFallback) => StartFailed

\* C33: Start returns nil only with a bound listener whose address is in
\* svc.listenAddr, returns an error when both listens fail or on the
\* timeout, and when it has returned an error no HTTP server is serving
C33_StartResult ==
    /\ StartNilMeansBound
    /\ StartBothFailMeansError
    /\ StartFailed => lpc # "serving"

\* the listener goroutine is at a send on one of its channels
AtStartSend == lpc \in {"sendErr", "sendAddr", "sendServeErr"}

\* C34: the listener goroutine never blocks on a channel send, whichever
\* case Start's select took: each channel holds at most its capacity of
\* one value and is sent to at most once per call, so every send the
\* goroutine stands at can be taken
C34_ListenerNeverBlocks ==
    /\ AtStartSend => ENABLED (LSendErr \/ LSendAddr \/ LSendServeErr)
    /\ Len(errChan) <= 1 /\ Len(addrChan) <= 1
    /\ nErr <= 1 /\ nAddr <= 1

\* Start gave up on the timeout, the goroutine served and sent the error
\* of http.Serve afterwards: both channels hold a value nobody receives
C34_Witness ==
    /\ ret = "timeout" /\ lpc = "exit" /\ Len(errChan) = 1 /\ Len(addrChan) = 1

\* the -edges flag is empty, which parseFlags turns into the list holding
\* the empty string, and the config file, if there is one, has no edges
NoEdgesGiven ==
    /\ cfgFlags.Edges = <<"">>
    /\ cfgFilename # "missing.yaml"
    /\ cfgFilename = "dave.yaml" => cfgFile.Edges = <<>>

C36_EdgesConcatenated ==
    /\ []((cpc \in {"merged", "parsed", "keyFilename", "keyRead"} /\ cfgFilename = "dave.yaml") =>
              /\ unparsedCfg.Edges = cfgFile.Edges \o cfgFlags.Edges
              /\ MergeConfigs(unparsedCfg, cfgFlags).Edges =
                     cfgFile.Edges \o cfgFlags.Edges \o cfgFlags.Edges)
    /\ [](cpc \in {"parsed", "keyFilename", "keyRead"} =>
              /\ withDefaults.Edges = defaultCfgUnparsed.Edges \o unparsedCfg.Edges
              /\ \A c \in 0..MaxEdges :
                     MergeEdges(defaultCfgUnparsed.Edges, c, unparsedCfg.Edges).dst =
                        defaultCfgUnparsed.Edges)
    /\ [][cfgFile' = cfgFile]_vars

\* the file's edge comes first, the flag's second
C36_Witness ==
    /\ cpc = "parsed"
    /\ cfgFilename = "dave.yaml"
    /\ cfgFile.Edges = <<"e">>
    /\ cfgFlags.Edges = <<"">>
    /\ unparsedCfg.Edges = <<"e", "">>
    /\ withDefaults.Edges = <<"e", "">>

\* C37: ReadKeyFile returns a key only for a file that could be read and
\* holds exactly 64 bytes, and the key is then the file's bytes unchanged;
\* for a file that cannot be read or has any other length it returns the
\* nil key and an error
C37_ReadKeyFile ==
    cpc = "keyRead" =>
        IF keyFile.readable /\ Len(keyFile.bytes) = 64
        THEN ~dataPrivateKey.isNil /\ ~dataPrivateKey.err /\ dataPrivateKey.key = keyFile.bytes
        ELSE dataPrivateKey.isNil /\ dataPrivateKey.err

\* a key file of 64 bytes was read
C37_Witness ==
    /\ cpc = "keyRead"
    /\ keyFile.readable
    /\ Len(keyFile.bytes) = 64
    /\ keyFile.bytes[64] = 63
    /\ dataPrivateKey.key = keyFile.bytes
    /\ ~dataPrivateKey.err
====
